---- MODULE Spec2Model ----
(***************************************************************************)
(* TimelineComments: the background service worker (src/background.js),    *)
(* its moderation engine (src/content-filter.js) and the content script's  *)
(* annotation list (src/content.js), as a state machine.                   *)
(*                                                                         *)
(* Times are milliseconds of Date.now(); the rate table of                 *)
(* background.js:12-16 (10, 30 and 20 admissions per 60000 ms) is kept in   *)
(* shape and scaled down: MaxComment, MaxLike, MaxReply admissions per      *)
(* WindowMs milliseconds.                                                  *)
(***************************************************************************)
EXTENDS Integers, Sequences, FiniteSets, TLC

\* ------------------------------------------------------------------ bounds
MaxTime    == 3      \* the clock runs 0..MaxTime
WindowMs   == 2      \* limits[*].window, scaled from 60000
MaxComment == 1      \* limits.comment.max, scaled from 10
MaxLike    == 3      \* limits.like.max, scaled from 30
MaxReply   == 2      \* limits.reply.max, scaled from 20
MaxChecks  == 4      \* rateLimiter.check calls in one run of SpecRL
MaxMsgs    == 3      \* messages the content script sends in one run of Spec
MaxFails   == 1      \* network requests that fail in one run of Spec
MaxOutside == 2      \* writes of other clients to the remote store in one run
MaxPos     == 1      \* playback positions are 0..MaxPos seconds
MaxIds     == 2      \* ids the remote store generates in one run
MaxUrls    == 2      \* URL changes of the page in one run of SpecCS
MaxLoops   == 2      \* retry loops of extractVideoInfoWhenReady live together
maxAttempts == 2     \* extractVideoInfoWhenReady: const maxAttempts, scaled from 10
MaxSends   == 3      \* chrome.runtime.sendMessage calls in one run of SpecCS
MaxCalls   == 3      \* filterContent calls on one instance in one run of SpecFilter
MaxWrites  == 3      \* writes of other clients to the remote store in one run of SpecLive
MaxTaps    == 4      \* LIKE_COMMENT messages in one run of SpecLike

Users       == {"u1", "u2"}
NoUser      == "none"
Keys        == {"k1", "k2"}
NoKey       == "none"
Slots       == {1, 2}     \* message handlers that can be in flight together
ActionKinds == {"comment", "like", "reply"}
Pairs       == Users \X ActionKinds

VARIABLES
  now,        \* Date.now()
  actions,    \* rateLimiter.actions[userId][action]: the timestamps kept
  admitted,   \* history: per pair, the timestamps of the admitted calls
  rejected,   \* history: the pairs that had a call rejected
  rlLast,     \* history: the last rateLimiter.check call
  nChecks     \* rateLimiter.check calls made so far

rlVars == <<now, actions, admitted, rejected, rlLast, nChecks>>

VARIABLES
  currentUser,   \* background.js: let currentUser (its uid; NoUser: null)
  stored,        \* chrome.storage.local userId/authToken (NoUser: none)
  cache,         \* chrome.storage.local comments_<videoId>, per key
  bgLastIndex,   \* lastIndex of the spam patterns of the worker's contentFilter
  h,             \* the message handlers in flight, per slot
  rUsers,        \* remote store: users/<uid>
  rComments,     \* remote store: comments/<videoId>, in key order
  rReplies,      \* remote store: replies/<commentId>, how many
  nextId,        \* the next id the remote store generates
  nSignups,      \* anonymous sign-ups that succeeded
  lastGood,      \* history: per key, what the last successful load or append gave
  budget         \* what is left of the bounds: messages, failures, outside writes

bgVars == <<currentUser, stored, cache, bgLastIndex, h, rUsers, rComments, rReplies,
            nextId, nSignups, lastGood, budget>>

VARIABLES
  csVideoId,     \* content.js: this.currentVideoId (NoKey: null)
  csComments,    \* content.js: this.comments
  csPolling,     \* content.js: this.realtimeInterval is set
  csLastIndex,   \* lastIndex of the spam patterns of the injector's contentFilter
  csPolled       \* history: what the poll answer handled last was like

VARIABLES
  platform,          \* content.js: this.platform
  url,               \* window.location.href, as the page it names
  lastUrl,           \* watchForNavigation: let lastUrl
  meta,              \* the player has published the episode the page plays
  videoFound,        \* waitForVideo found the video element and injected the panel
  videoIdFinalized,  \* content.js: this.videoIdFinalized
  retry,             \* the live checkInterval timers of extractVideoInfoWhenReady:
                     \* how many there are, by the attempts they have made
  realtimeInterval,  \* content.js: this.realtimeInterval (0: null)
  pollTimers,        \* the timers setupRealtimeListener created, by handle
  pending,           \* chrome.runtime.sendMessage calls awaiting their answer
  invalid,           \* the extension context is invalidated
  notice,            \* the reload notice is in the panel
  csError,           \* the text showError displays (<<>>: none)
  csSends,           \* chrome.runtime.sendMessage calls made so far
  csSaveAnswer,      \* history: the answer to SAVE_COMMENT that arrived last
  awaiting,          \* history: no load of the current key was applied since the navigation
  stale,             \* history: a request failed with 'Extension context invalidated'
  nUrls,             \* URL changes of the page so far
  retryOld,          \* history: of the live retry loops, those started before the
                     \* last navigation event
  applied,           \* history: the LOAD_COMMENTS answer handled last, by key and
                     \* by the order of the requests
  cleaned            \* history: cleanup() has run

navVars == <<platform, url, lastUrl, meta, videoFound, videoIdFinalized, retry,
             realtimeInterval, pollTimers, pending, invalid, notice, csError, csSends,
             csSaveAnswer, awaiting, stale, nUrls, retryOld, applied, cleaned>>

VARIABLES
  fLastIndex,    \* lastIndex of the spam patterns of one ContentFilter instance
  fCalls         \* history: the filterContent calls made on it, with their verdicts

evalVars == <<fLastIndex, fCalls>>

VARIABLES
  tsDisplay,     \* textContent of the platform's time display (NoDisplay: no element)
  tsClock,       \* videoElement.currentTime in tenths of a second (NoVideo: no element)
  tsReturn       \* history: what the last getRealTimestamp call returned

timeVars == <<tsDisplay, tsClock, tsReturn>>

VARIABLES
  rLiked,        \* remote store: likes/<commentId>/<uid> is true, for one comment and actor
  lk,            \* the LIKE_COMMENT handlers in flight, per slot
  nLikes,        \* LIKE_COMMENT messages received so far
  likeFlips      \* history: the LIKE_COMMENT requests that answered success: true

likeVars == <<rLiked, lk, nLikes, likeFlips>>

\* The page: the injector as Spec sees it, its key resolution and channel
\* (SpecCS), and a ContentFilter instance called on its own (SpecFilter).
csVars == <<csVideoId, csComments, csPolling, csLastIndex, csPolled, navVars, evalVars,
           timeVars, likeVars>>

vars   == <<rlVars, bgVars, csVars>>

\* ------------------------------------------------------------ rate limiter
\* rateLimiter.limits
limits ==
  [comment |-> [max |-> MaxComment, window |-> WindowMs],
   like    |-> [max |-> MaxLike,    window |-> WindowMs],
   reply   |-> [max |-> MaxReply,   window |-> WindowMs]]

\* A bug the sliding window must exclude: expired timestamps are never dropped.
PruneNever(times, t, w) == times

\* actions[userId][action].filter(time => now - time < limit.window)
Prune(times, t, w) == SelectSeq(times, LAMBDA time : t - time < w)

\* A bug the window bound must exclude: the comparison lets one more through.
LimitReachedOffByOne(times, max) == Len(times) > max

\* actions[userId][action].length >= limit.max
LimitReached(times, max) == Len(times) >= max

\* A bug the frame of a rejection must exclude: the rejected call is recorded too.
checkRecordsRejected(acts, userId, action, t) ==
  LET limit  == limits[action]
      pruned == Prune(acts[<<userId, action>>], t, limit.window)
  IN  [ok |-> ~LimitReached(pruned, limit.max),
       acts |-> [acts EXCEPT ![<<userId, action>>] = Append(pruned, t)]]

\* A bug the independence of the windows must exclude: one window per
\* actor, whatever the action kind.
checkPerActor(acts, userId, action, t) ==
  LET limit  == limits[action]
      pruned == Prune(acts[<<userId, action>>], t, limit.window)
      ok     == ~LimitReached(pruned, limit.max)
  IN  [ok |-> ok,
       acts |-> [q \in DOMAIN acts |->
                  IF q[1] # userId THEN acts[q]
                  ELSE IF ok THEN Append(pruned, t) ELSE pruned]]

\* rateLimiter.check(userId, action) at clock t on the table acts:
\* the answer and the table it leaves.
check(acts, userId, action, t) ==
  LET limit  == limits[action]
      pruned == Prune(acts[<<userId, action>>], t, limit.window)
  IN  IF LimitReached(pruned, limit.max)
        THEN [ok |-> FALSE, acts |-> [acts EXCEPT ![<<userId, action>>] = pruned]]
        ELSE [ok |-> TRUE,
              acts |-> [acts EXCEPT ![<<userId, action>>] = Append(pruned, t)]]

NoCall == [user |-> "", action |-> "", at |-> -1, ok |-> FALSE,
           oldest |-> -1, count |-> 0]

\* The variables a rateLimiter.check call changes, histories included.
DoCheck(userId, action) ==
  LET p   == <<userId, action>>
      r   == check(actions, userId, action, now)
      old == actions[p]
  IN  /\ actions' = r.acts
      /\ admitted' = IF r.ok THEN [admitted EXCEPT ![p] = Append(@, now)] ELSE admitted
      /\ rejected' = IF r.ok THEN rejected ELSE rejected \cup {p}
      /\ rlLast' = [user |-> userId, action |-> action, at |-> now, ok |-> r.ok,
                    oldest |-> IF old = <<>> THEN -1 ELSE Head(old),
                    count |-> Len(old)]
      /\ nChecks' = nChecks + 1

\* The rate limiter as the worker script creates it.
RLInit ==
  /\ now = 0
  /\ actions = [p \in Pairs |-> <<>>]
  /\ admitted = [p \in Pairs |-> <<>>]
  /\ rejected = {}
  /\ rlLast = NoCall
  /\ nChecks = 0

\* ------------------------------------------------------- moderation engine
\* A text is the sequence of its characters; JavaScript index i is place i + 1.
LowerLetters == <<"a","b","c","d","e","f","g","h","i","j","k","l","m",
                  "n","o","p","q","r","s","t","u","v","w","x","y","z">>
UpperLetters == <<"A","B","C","D","E","F","G","H","I","J","K","L","M",
                  "N","O","P","Q","R","S","T","U","V","W","X","Y","Z">>
Digits       == {"0","1","2","3","4","5","6","7","8","9"}

Range(f) == {f[i] : i \in DOMAIN f}
Max(S)   == CHOOSE x \in S : \A y \in S : y <= x
Min(S)   == CHOOSE x \in S : \A y \in S : x <= y

IsUpper(c) == c \in Range(UpperLetters)                       \* [A-Z]
IsSpace(c) == c \in {" ", "\t", "\n"}                         \* \s
IsWord(c)  == c \in Range(LowerLetters) \cup Range(UpperLetters) \cup Digits \cup {"_"}  \* \w
IsDot(c)   == c # "\n"                                        \* .

\* String.prototype.toLowerCase, one character
Lower(c) == IF IsUpper(c) THEN LowerLetters[CHOOSE i \in 1..26 : UpperLetters[i] = c] ELSE c
toLowerCase(text) == [i \in 1..Len(text) |-> Lower(text[i])]

\* String.prototype.trim
trim(text) ==
  LET keep == {i \in 1..Len(text) : ~IsSpace(text[i])}
  IN  IF keep = {} THEN <<>> ELSE SubSeq(text, Min(keep), Max(keep))

\* word occurs in text at place s (compared without case)
OccursAt(word, text, s) ==
  /\ s >= 1
  /\ s + Len(word) - 1 <= Len(text)
  /\ \A j \in 1..Len(word) : Lower(text[s + j - 1]) = Lower(word[j])

\* String.prototype.includes
includes(text, word) == \E s \in 1..Len(text) : word[1] = text[s] /\
                          s + Len(word) - 1 <= Len(text) /\
                          \A j \in 1..Len(word) : text[s + j - 1] = word[j]

\* this.profanityList
profanityList ==
  << <<"f","u","c","k">>, <<"s","h","i","t">>, <<"b","i","t","c","h">>,
     <<"a","s","s">>, <<"d","a","m","n">>, <<"c","u","n","t">>,
     <<"c","r","a","p">>, <<"p","i","s","s">>, <<"b","a","s","t","a","r","d">>,
     <<"s","l","u","t">>, <<"w","h","o","r","e">>,
     <<"n","*","*","*","a">>, <<"f","*","*","*","*","t">>, <<"r","*","*","*","*","d">> >>

\* new RegExp(word, 'gi') is a syntax error for a word that repeats a
\* quantifier ('n***a': nothing to repeat).
IsValidRegExp(word) == ~\E i \in 1..(Len(word) - 1) : word[i] = "*" /\ word[i + 1] = "*"

\* One item of a pattern: a character class and how often it repeats.
One(cs)  == [set |-> cs, min |-> 1, many |-> FALSE]
Plus(cs) == [set |-> cs, min |-> 1, many |-> TRUE]
Star(cs) == [set |-> cs, min |-> 0, many |-> TRUE]
Spaces   == {" ", "\t", "\n"}

\* this.patterns (all with the flags gi)
patterns ==
  << <<Plus({"f"}), Plus({"u"}), Plus({"c"}), Plus({"k"})>>,
     <<Plus({"s"}), Plus({"h"}), Plus({"i"}), Plus({"t"})>>,
     <<Plus({"b"}), Plus({"i"}), Plus({"t"}), Plus({"c"}), Plus({"h"})>>,
     <<Plus({"a"}), Plus({"s"}), Plus({"s"}), Plus({"h"}), Plus({"o"}), Plus({"l"}), Plus({"e"})>>,
     <<Plus({"d"}), Plus({"a"}), Plus({"m"}), Plus({"n"})>>,
     <<One({"f"}), One({"u", "*", "@"}), One({"c"}), One({"k"})>>,
     <<One({"s"}), One({"h"}), One({"i", "*"}), One({"t"})>>,
     <<One({"b"}), One({"*", "i"}), One({"t"}), One({"c"}), One({"h"})>>,
     <<One({"f"}), Star(Spaces), One({"u"}), Star(Spaces), One({"c"}), Star(Spaces), One({"k"})>>,
     <<One({"s"}), Star(Spaces), One({"h"}), Star(Spaces), One({"i"}), Star(Spaces), One({"t"})>> >>

\* How many characters from place pos on lie in the class cs.
RECURSIVE RunLen(_, _, _)
RunLen(cs, text, pos) ==
  IF pos <= Len(text) /\ Lower(text[pos]) \in cs THEN 1 + RunLen(cs, text, pos + 1) ELSE 0

\* Of the pairs whose second member is not 0, the one of least first member
\* (<<0, 0>>: none), and the second member of the one of greatest first
\* member (0: none).
FirstNonZero(pairs) ==
  LET good == {p \in pairs : p[2] # 0}
  IN  IF good = {} THEN <<0, 0>> ELSE CHOOSE p \in good : \A q \in good : p[1] <= q[1]
LastNonZero(pairs) ==
  LET good == {p \in pairs : p[2] # 0}
  IN  IF good = {} THEN 0 ELSE (CHOOSE p \in good : \A q \in good : q[1] <= p[1])[2]

\* How often an item can repeat on a run of run characters of its class.
Top(it, run) == IF it.many THEN run ELSE IF run >= 1 THEN 1 ELSE 0

\* The place after the match of items k.. that starts at place pos, as the
\* backtracking matcher finds it (each item as long as the rest allows); 0: none.
RECURSIVE MatchEnd(_, _, _, _)
MatchEnd(items, k, text, pos) ==
  IF k > Len(items) THEN pos
  ELSE LastNonZero({<<n, MatchEnd(items, k + 1, text, pos + n)>> :
                      n \in items[k].min..Top(items[k], RunLen(items[k].set, text, pos))})

\* The first match of items at or after place from: <<start, place after>>, or <<0, 0>>.
FirstMatch(items, text, from) ==
  FirstNonZero({<<s, MatchEnd(items, 1, text, s)>> : s \in from..Len(text)})

\* text with the places a..b-1 starred
Masked(text, a, b) == [i \in 1..Len(text) |-> IF a <= i /\ i < b THEN "*" ELSE text[i]]

\* text.replace(pattern, match => '*'.repeat(match.length)) for a global
\* pattern: the match m is starred and the search goes on after it.
RECURSIVE MaskPattern(_, _, _)
MaskMatch(items, text, m) ==
  IF m[1] = 0 THEN text ELSE MaskPattern(items, Masked(text, m[1], m[2]), m[2])
MaskPattern(items, text, from) == MaskMatch(items, text, FirstMatch(items, text, from))

\* text.replace(new RegExp(word, 'gi'), '*'.repeat(word.length)) for a plain
\* word: its first occurrence of starts is starred and the search goes on.
RECURSIVE MaskWord(_, _, _)
MaskWordAt(word, text, starts) ==
  IF starts = {} THEN text
  ELSE MaskWord(word, Masked(text, Min(starts), Min(starts) + Len(word)),
                Min(starts) + Len(word))
MaskWord(word, text, from) ==
  MaskWordAt(word, text, {s \in from..Len(text) : OccursAt(word, text, s)})

\* checkProfanity 91-99: the word list, in order. r is the result so far.
RECURSIVE CheckWords(_, _, _)
CheckWord(k, lowerText, r, word) ==
  IF ~includes(lowerText, word) THEN CheckWords(k + 1, lowerText, r)
  ELSE IF ~IsValidRegExp(word)
    THEN [r EXCEPT !.isClean = FALSE, !.threw = TRUE,
                   !.violations = Append(@, <<"Inappropriate language: ">> \o word)]
    ELSE CheckWords(k + 1, lowerText,
           [r EXCEPT !.isClean = FALSE,
                     !.violations = Append(@, <<"Inappropriate language: ">> \o word),
                     !.filtered = MaskWord(word, @, 1)])
CheckWords(k, lowerText, r) ==
  IF k > Len(profanityList) \/ r.threw THEN r
  ELSE CheckWord(k, lowerText, r, profanityList[k])

\* checkProfanity 102-108: the patterns, in order. pattern.test(text) starts
\* at lastIndex 0: a failed test and the replace after a successful one both
\* leave the pattern's lastIndex at 0.
RECURSIVE CheckPatterns(_, _, _)
CheckPattern(k, text, r, pattern) ==
  IF FirstMatch(pattern, text, 1)[1] = 0 THEN CheckPatterns(k + 1, text, r)
  ELSE CheckPatterns(k + 1, text,
         [r EXCEPT !.isClean = FALSE,
                   !.violations = Append(@, <<"Inappropriate language detected">>),
                   !.filtered = MaskPattern(pattern, text, 1)])
CheckPatterns(k, text, r) ==
  IF k > Len(patterns) THEN r ELSE CheckPattern(k, text, r, patterns[k])

\* checkProfanity: the patterns follow the word list r1 unless it threw.
PatternsAfterWords(text, r1) == IF r1.threw THEN r1 ELSE CheckPatterns(1, text, r1)
checkProfanity(text) ==
  PatternsAfterWords(text,
    CheckWords(1, toLowerCase(text),
               [isClean |-> TRUE, filtered |-> text, violations |-> <<>>, threw |-> FALSE]))

\* The numbers of the rules of filterContent and this.spamPatterns.
RepeatMin     == 10    \* (.)\1{10,}
WordRepeatMin == 3     \* (\b\w+\b)(\s+\1){3,}
CapsMin       == 20    \* [A-Z]{20,}
MaxTextLen    == 500   \* text.length > 500
MinTextLen    == 2     \* text.trim().length < 2

\* The character classes of the spam patterns: \s, [^\s], \w and [A-Z]
InClass(class, c) ==
  CASE class = "space"    -> IsSpace(c)
    [] class = "nonspace" -> ~IsSpace(c)
    [] class = "word"     -> IsWord(c)
    [] class = "upper"    -> IsUpper(c)

\* How many characters from place pos on are of the class.
RECURSIVE RunWhile(_, _, _)
RunWhile(class, text, pos) ==
  IF pos <= Len(text) /\ InClass(class, text[pos])
    THEN 1 + RunWhile(class, text, pos + 1) ELSE 0

\* The place after a run of run characters from place s, when it has min of them.
RunEnd(s, run, min) == IF run >= min THEN s + run ELSE 0

\* (\s+\1){3,} from place pos on, as often as it goes: <<place after, times>>.
\* gap is the white space at pos.
RECURSIVE Repeats(_, _, _, _)
RepeatAfter(word, text, pos, times, gap) ==
  IF gap >= 1 /\ OccursAt(word, text, pos + gap)
    THEN Repeats(word, text, pos + gap + Len(word), times + 1)
    ELSE <<pos, times>>
Repeats(word, text, pos, times) ==
  RepeatAfter(word, text, pos, times, RunWhile("space", text, pos))

\* [^\s]+ from place q, where the scheme of a URL ended (0: there was none)
UrlEnd(text, q) == IF q = 0 THEN 0 ELSE RunEnd(q, RunWhile("nonspace", text, q), 1)

\* (\b\w+\b)(\s+\1){3,} at place s, where len word characters start
EnoughRepeats(rep) == IF rep[2] >= WordRepeatMin THEN rep[1] ELSE 0
WordRepeated(text, s, len) ==
  IF len >= 1 /\ (s = 1 \/ ~IsWord(text[s - 1]))
    THEN EnoughRepeats(Repeats(SubSeq(text, s, s + len - 1), text, s + len, 0))
    ELSE 0

\* The place after the match of spam pattern k that starts at place s; 0: none.
SpamMatchAt(k, text, s) ==
  CASE k = 1 ->   \* /(.)\1{10,}/gi
         IF IsDot(text[s]) THEN RunEnd(s, RunLen({Lower(text[s])}, text, s), 1 + RepeatMin)
         ELSE 0
    [] k = 2 ->   \* /(https?:\/\/[^\s]+)/gi
         UrlEnd(text,
                IF OccursAt(<<"h", "t", "t", "p", "s", ":", "/", "/">>, text, s) THEN s + 8
                ELSE IF OccursAt(<<"h", "t", "t", "p", ":", "/", "/">>, text, s) THEN s + 7
                ELSE 0)
    [] k = 3 ->   \* /(\b\w+\b)(\s+\1){3,}/gi
         WordRepeated(text, s, RunWhile("word", text, s))
    [] k = 4 ->   \* /[A-Z]{20,}/g
         RunEnd(s, RunWhile("upper", text, s), CapsMin)

\* this.spamPatterns[k].test(text) with the pattern's lastIndex at li:
\* the answer and the lastIndex it leaves (a global pattern searches from
\* lastIndex on, leaves it after the match m, and resets it to 0 on failure).
SpamAnswer(m) ==
  IF m[1] = 0 THEN [found |-> FALSE, lastIndex |-> 0]
  ELSE [found |-> TRUE, lastIndex |-> m[2] - 1]
SpamTest(k, text, li) ==
  SpamAnswer(FirstNonZero({<<s, SpamMatchAt(k, text, s)>> : s \in (li + 1)..Len(text)}))

spamViolations ==
  << <<"Excessive repeated characters">>, <<"URLs not allowed">>,
     <<"Excessive repeated words">>, <<"Excessive capital letters">> >>

\* checkSpam 120-134: the patterns in order; r is the result so far, with the
\* lastIndex of each pattern, t the answer of pattern k's test.
RECURSIVE CheckSpamFrom(_, _, _)
AfterTest(k, text, r, t) ==
  CheckSpamFrom(k + 1, text,
    [isClean    |-> r.isClean /\ ~t.found,
     violations |-> IF t.found THEN Append(r.violations, spamViolations[k])
                    ELSE r.violations,
     lastIndex  |-> [r.lastIndex EXCEPT ![k] = t.lastIndex]])
CheckSpamFrom(k, text, r) ==
  IF k > 4 THEN r ELSE AfterTest(k, text, r, SpamTest(k, text, r.lastIndex[k]))

checkSpam(text, li) ==
  CheckSpamFrom(1, text, [isClean |-> TRUE, violations |-> <<>>, lastIndex |-> li])

\* A bug the verdict's shape must exclude: profanity alone gives 'warn', the
\* alternative the comment at filterContent 53 names.
filterResultWarn(prof, spam, long, short, li) ==
  LET clean == prof.isClean /\ spam.isClean /\ ~long /\ ~short
  IN  [isClean      |-> clean,
       filteredText |-> prof.filtered,
       violations   |-> prof.violations \o spam.violations
                          \o (IF long THEN << <<"Text too long (max 500 characters)">> >> ELSE <<>>)
                          \o (IF short THEN << <<"Text too short">> >> ELSE <<>>),
       action       |-> IF clean THEN "allow"
                        ELSE IF spam.isClean /\ ~long /\ ~short THEN "warn" ELSE "block",
       threw        |-> prof.threw,
       lastIndex    |-> IF prof.threw THEN li ELSE spam.lastIndex]

\* filterContent 40-77 on the answers of its checks: long is text.length >
\* 500, short is text.trim().length < 2.
filterResult(prof, spam, long, short, li) ==
  LET clean == prof.isClean /\ spam.isClean /\ ~long /\ ~short
  IN  IF prof.threw
        THEN [isClean |-> FALSE, filteredText |-> prof.filtered, violations |-> prof.violations,
              action |-> "block", threw |-> TRUE, lastIndex |-> li]
        ELSE [isClean      |-> clean,
              filteredText |-> prof.filtered,
              violations   |-> prof.violations \o spam.violations
                                 \o (IF long THEN << <<"Text too long (max 500 characters)">> >> ELSE <<>>)
                                 \o (IF short THEN << <<"Text too short">> >> ELSE <<>>),
              action       |-> IF clean THEN "allow" ELSE "block",
              threw        |-> FALSE,
              lastIndex    |-> spam.lastIndex]

\* A bug the length bounds must exclude: the bounds themselves are refused.
filterContentInclusive(text, li) ==
  filterResult(checkProfanity(text), checkSpam(text, li),
               Len(text) >= MaxTextLen, Len(trim(text)) <= MinTextLen, li)

\* filterContent(text) of a ContentFilter whose spam patterns stand at
\* lastIndex li: the verdict, whether the call threw, and the lastIndex left.
filterContent(text, li) ==
  filterResult(checkProfanity(text), checkSpam(text, li),
               Len(text) > MaxTextLen, Len(trim(text)) < MinTextLen, li)

NoLastIndex == [k \in 1..4 |-> 0]

\* The texts a viewer types: "hi" and "ass" (a listed word).
Texts == { <<"h", "i">>, <<"a", "s", "s">> }

\* The lastIndex vectors a filter can stand at after any calls on Texts.
RECURSIVE LastIndexClosure(_)
Grow(S, T) == IF T = S THEN S ELSE LastIndexClosure(T)
LastIndexClosure(S) ==
  Grow(S, S \cup {filterContent(t, li).lastIndex : t \in Texts, li \in S})
LastIndexes == LastIndexClosure({NoLastIndex})

\* filterContent on Texts, evaluated once.
Verdicts == {<<x[1], x[2], filterContent(x[1], x[2])>> : x \in Texts \X LastIndexes}
Verdict(text, li) == (CHOOSE v \in Verdicts : v[1] = text /\ v[2] = li)[3]

\* ------------------------------------------------------------ remote store
\* users/<uid> as a GET answers it; NoData: null
NoData == [exists |-> FALSE, banned |-> FALSE, commentCount |-> 0]
NewProfile == [exists |-> TRUE, banned |-> FALSE, commentCount |-> 0]

\* An annotation: the id the store gave it (0: undefined) and its position.
Comment(id, ts) == [id |-> id, timestamp |-> ts]

\* A bug the ordering must exclude: the list is left as it is.
sortNot(list) == list

RECURSIVE InsertByTimestamp(_, _)
InsertByTimestamp(sorted, c) ==
  IF sorted = <<>> \/ sorted[Len(sorted)].timestamp <= c.timestamp
    THEN Append(sorted, c)
    ELSE Append(InsertByTimestamp(SubSeq(sorted, 1, Len(sorted) - 1), c), sorted[Len(sorted)])

RECURSIVE SortFrom(_)
SortFrom(list) ==
  IF list = <<>> THEN <<>>
  ELSE InsertByTimestamp(SortFrom(SubSeq(list, 1, Len(list) - 1)), list[Len(list)])

\* comments.sort((a, b) => a.timestamp - b.timestamp): a stable sort
sortByTimestamp(list) == SortFrom(list)

Remove(list, i) == SubSeq(list, 1, i - 1) \o SubSeq(list, i + 1, Len(list))

\* ---------------------------------------------------------------- messages
\* Array.prototype.join: the members of list, sep between them
RECURSIVE join(_, _)
join(list, sep) ==
  IF list = <<>> THEN <<>>
  ELSE IF Len(list) = 1 THEN list[1]
  ELSE list[1] \o <<sep>> \o join(Tail(list), sep)

\* The answers of the handlers; an error is a text in pieces.
Ok(list)  == [success |-> TRUE, error |-> <<>>, comments |-> list]
Fail(err) == [success |-> FALSE, error |-> err, comments |-> <<>>]
NoResp    == Fail(<<>>)
RateMsg(kind) ==
  IF kind = "save" THEN <<"Rate limit exceeded. Please wait before posting again.">>
                   ELSE <<"Rate limit exceeded.">>
Suspended == <<"Your account has been suspended.">>
NetErr    == <<"Failed to fetch">>
TypeErr   == <<"TypeError">>       \* a property of null or undefined is read
SyntaxErr == <<"SyntaxError">>     \* filterContent threw

\* A handler slot: the handler's place (pc), its arguments and locals, and the
\* history of what it did (checked .. postFailed).
Idle ==
  [kind |-> "none", origin |-> "none", pc |-> "idle", key |-> NoKey, text |-> <<>>,
   ts |-> 0, cid |-> 0, uid |-> NoUser, user |-> NoData, newId |-> 0, list |-> <<>>,
   idx |-> 0, resp |-> NoResp,
   checked |-> FALSE, rateOk |-> FALSE, gate |-> "none", li |-> NoLastIndex,
   reqs |-> {}, pre |-> {}, cached |-> FALSE, failed |-> FALSE,
   postFailed |-> FALSE]

ActionOf(kind) == IF kind = "save" THEN "comment" ELSE "reply"

Free == {s \in Slots : h[s].pc = "idle"}

BgStart(b) ==
  /\ currentUser = NoUser /\ stored = NoUser /\ nSignups = 0
  /\ cache = [k \in Keys |-> <<>>]
  /\ bgLastIndex = NoLastIndex
  /\ h = [s \in Slots |-> Idle]
  /\ rUsers = [u \in Users |-> NoData]
  /\ rComments = [k \in Keys |-> <<>>]
  /\ rReplies = [i \in 1..MaxIds |-> 0]
  /\ nextId = 1
  /\ lastGood = [k \in Keys |-> <<>>]
  /\ budget = b

BgInit == BgStart([msgs |-> MaxMsgs, fails |-> MaxFails, outside |-> MaxOutside])

\* new VideoCommentInjector()
CsInit ==
  /\ csVideoId = NoKey /\ csComments = <<>> /\ csPolling = FALSE
  /\ csPolled = "none"
  /\ csLastIndex = NoLastIndex

\* ------------------------------------------------------ the page and its key
Browse    == "browse"        \* a page that plays nothing
Watch     == {"w1", "w2"}    \* /watch/<id> pages
NullUrl   == "wnull"         \* /watch/null: an id that reads 'null'
AllUrls   == {Browse, NullUrl} \cup Watch
Platforms == {"netflix", "hulu"}
NullKey   == "hulu_null"

ShowKey(u)    == IF u = "w1" THEN "k1" ELSE "k2"
EpisodeKey(u) == IF u = "w1" THEN "e1" ELSE "e2"

\* extractVideoInfo 1065-1108: the key the page gives now.  Netflix wants
\* digits after /watch/ and prefers the episode the player has published;
\* Hulu takes whatever follows /watch/.
extractVideoInfo(p, u, m) ==
  IF p = "netflix"
    THEN IF u \notin Watch THEN NoKey
         ELSE IF m THEN EpisodeKey(u) ELSE ShowKey(u)
    ELSE IF u \in Watch THEN ShowKey(u)
         ELSE IF u = NullUrl THEN NullKey ELSE NoKey

\* 1024, 1046: the id is truthy and reads neither 'null' nor 'undefined'
IsValidId(id) == id # NoKey /\ id # NullKey

\* new VideoCommentInjector() on platform p, in a page at u
NavInit(p, u) ==
  /\ platform = p /\ url = u /\ lastUrl = u /\ meta = FALSE
  /\ videoFound = FALSE /\ videoIdFinalized = FALSE
  /\ retry = [a \in 0..maxAttempts |-> 0]
  /\ realtimeInterval = 0 /\ pollTimers = <<>>
  /\ pending = {} /\ invalid = FALSE /\ notice = FALSE /\ csError = <<>>
  /\ csSends = 0 /\ csSaveAnswer = NoResp /\ awaiting = FALSE
  /\ stale = FALSE /\ nUrls = 0
  /\ retryOld = [a \in 0..maxAttempts |-> 0]
  /\ applied = [key |-> NoKey, n |-> 0] /\ cleaned = FALSE

\* new ContentFilter()
EvalInit == fLastIndex = NoLastIndex /\ fCalls = <<>>

\* No getRealTimestamp call yet, on a page without a player.
NoDisplay == <<"none">>
NoVideo   == 0 - 1
NoReturn  == [called |-> FALSE, null |-> TRUE, value |-> 0]
TimeInit  == tsDisplay = NoDisplay /\ tsClock = NoVideo /\ tsReturn = NoReturn

\* No LIKE_COMMENT has been received; the actor has not liked the comment.
NoLike    == [pc |-> "idle", liked |-> FALSE, success |-> FALSE, answer |-> FALSE]
LikeInit  == rLiked = FALSE /\ lk = [s \in Slots |-> NoLike] /\ nLikes = 0 /\ likeFlips = 0

Init == RLInit /\ BgInit /\ CsInit /\ NavInit("netflix", Browse) /\ EvalInit /\ TimeInit /\ LikeInit

\* One call of rateLimiter.check by any actor for any action kind.
RLCheck ==
  /\ nChecks < MaxChecks
  /\ \E u \in Users, a \in ActionKinds : DoCheck(u, a)
  /\ UNCHANGED <<now, bgVars, csVars>>

\* Date.now() advances (a non-decreasing clock).
Tick ==
  /\ now < MaxTime
  /\ now' = now + 1
  /\ UNCHANGED <<actions, admitted, rejected, rlLast, nChecks, bgVars, csVars>>

NextRL == RLCheck \/ Tick

SpecRL == Init /\ [][NextRL]_vars

\* ------------------------------------------------- background: write gate
rlHist    == <<admitted, rejected, rlLast, nChecks>>   \* the histories of SpecRL
authVars  == <<currentUser, stored, nSignups>>
storeVars == <<rUsers, rComments, rReplies, nextId>>

\* A bug the write gate must exclude: a blocked text goes on to the store.
GateIgnoresModeration(rateOk, threw, isClean) == IF ~rateOk THEN "rate" ELSE "passed"

\* handleSaveComment 159-174, handleAddReply 342-355: the rate limiter is
\* asked first, the moderation engine only when it admits.
GateOutcome(rateOk, threw, isClean) ==
  IF ~rateOk THEN "rate"
  ELSE IF threw THEN "threw"
  ELSE IF ~isClean THEN "moderation" ELSE "passed"

Done(rec, resp) == [rec EXCEPT !.pc = "done", !.resp = resp]
Issue(rec, req) == [rec EXCEPT !.reqs = @ \cup {req},
                               !.pre = IF rec.gate = "passed" THEN @ ELSE @ \cup {req}]

\* handleSaveComment 159-177, handleAddReply 342-357 with currentUser = user:
\* r is the rate limiter's answer, f the moderation engine's (read only when
\* the rate limiter admits), g what the gate makes of them.
Gated(s, rec1, g, violations) ==
  h' = [h EXCEPT ![s] =
          CASE g = "rate"       -> Done(rec1, Fail(RateMsg(rec1.kind)))
            [] g = "threw"      -> Done(rec1, Fail(SyntaxErr))
            [] g = "moderation" -> Done(rec1, Fail(join(violations, ". ")))
            [] g = "passed"     -> Issue([rec1 EXCEPT !.pc = "user"], "getUser")]
Gate(s, rec, user, r, f, g) ==
  /\ actions' = r.acts
  /\ bgLastIndex' = IF r.ok THEN f.lastIndex ELSE bgLastIndex
  /\ Gated(s, [rec EXCEPT !.uid = user, !.checked = TRUE, !.rateOk = r.ok,
                          !.gate = g, !.li = bgLastIndex], g, f.violations)
Checked(s, rec, user, r, f) == Gate(s, rec, user, r, f, GateOutcome(r.ok, f.threw, f.isClean))

\* handleSaveComment / handleAddReply from the line after initializeAuth on,
\* up to the first request, with currentUser = user.
AfterAuth(s, rec, user) ==
  IF user = NoUser
    THEN \* currentUser.uid of null throws; the catch answers the error
         /\ h' = [h EXCEPT ![s] = Done([rec EXCEPT !.gate = "noauth"], Fail(TypeErr))]
         /\ UNCHANGED <<actions, bgLastIndex>>
    ELSE Checked(s, rec, user, check(actions, user, ActionOf(rec.kind), now),
                 Verdict(rec.text, bgLastIndex))

\* chrome.runtime.onMessage: SAVE_COMMENT or ADD_REPLY reaches its handler,
\* which runs to its first await.
ReceiveWrite(s, rec) ==
  IF currentUser = NoUser
    THEN /\ h' = [h EXCEPT ![s] = [rec EXCEPT !.pc = "auth_get"]]
         /\ UNCHANGED <<actions, bgLastIndex>>
    ELSE AfterAuth(s, rec, currentUser)

\* initializeAuth 67-83: the stored credentials are read; without them the
\* anonymous sign-up is requested.
AuthGet(s) ==
  /\ h[s].pc = "auth_get"
  /\ IF stored # NoUser
       THEN /\ currentUser' = stored
            /\ AfterAuth(s, h[s], stored)
       ELSE /\ h' = [h EXCEPT ![s] = Issue([h[s] EXCEPT !.pc = "auth_signup"], "signUp")]
            /\ UNCHANGED <<currentUser, actions, bgLastIndex>>
  /\ UNCHANGED <<now, rlHist, stored, nSignups, cache, storeVars, lastGood, budget, csVars>>

\* initializeAuth 85-115: the sign-up answers; currentUser and the stored
\* credentials are set and the profile is PUT.
AuthSignupOk(s) ==
  /\ h[s].pc = "auth_signup"
  /\ nSignups < Cardinality(Users)
  /\ LET uid == IF nSignups = 0 THEN "u1" ELSE "u2"
     IN  /\ currentUser' = uid
         /\ stored' = uid
         /\ h' = [h EXCEPT ![s] = Issue([h[s] EXCEPT !.pc = "auth_profile", !.uid = uid],
                                        "putProfile")]
  /\ nSignups' = nSignups + 1
  /\ UNCHANGED <<rlVars, cache, bgLastIndex, storeVars, lastGood, budget, csVars>>

\* initializeAuth 87-89, 119-121: the sign-up fails; the error is logged and
\* the handler goes on with currentUser as it is.
AuthSignupFail(s) ==
  /\ h[s].pc = "auth_signup"
  /\ budget.fails > 0
  /\ budget' = [budget EXCEPT !.fails = @ - 1]
  /\ AfterAuth(s, [h[s] EXCEPT !.failed = TRUE], currentUser)
  /\ UNCHANGED <<now, rlHist, authVars, cache, storeVars, lastGood, csVars>>

\* initializeAuth 103-121: the profile PUT ends, well or not.
AuthProfile(s) ==
  /\ h[s].pc = "auth_profile"
  /\ \/ /\ rUsers' = [rUsers EXCEPT ![h[s].uid] = NewProfile]
        /\ AfterAuth(s, h[s], currentUser)
        /\ UNCHANGED budget
     \/ /\ budget.fails > 0
        /\ budget' = [budget EXCEPT !.fails = @ - 1]
        /\ AfterAuth(s, [h[s] EXCEPT !.failed = TRUE], currentUser)
        /\ UNCHANGED rUsers
  /\ UNCHANGED <<now, rlHist, authVars, cache, rComments, rReplies, nextId, lastGood, csVars>>

\* ---------------------------------------------- background: save and reply
\* A bug the ban check must exclude: the flag is not looked at.
IsBannedNever(userData) == FALSE

\* userData?.banned
IsBanned(userData) == userData.exists /\ userData.banned

\* A request of handler s fails (fetch rejects): the catch answers the error.
FetchFails(s, pc) ==
  /\ h[s].pc = pc
  /\ budget.fails > 0
  /\ budget' = [budget EXCEPT !.fails = @ - 1]

\* handleSaveComment 177-207, handleAddReply 357-380: the user record
\* arrives; a banned actor is refused, otherwise the create is POSTed.
UserFetched(s) ==
  /\ h[s].pc = "user"
  /\ LET userData == rUsers[h[s].uid]
         rec      == [h[s] EXCEPT !.user = userData]
     IN  h' = [h EXCEPT ![s] =
                 IF IsBanned(userData) THEN Done(rec, Fail(Suspended))
                 ELSE IF ~userData.exists THEN Done(rec, Fail(TypeErr))  \* null.displayName
                 ELSE Issue([rec EXCEPT !.pc = "post"], "post")]
  /\ UNCHANGED <<rlVars, authVars, cache, bgLastIndex, storeVars, lastGood, budget, csVars>>

UserFetchFails(s) ==
  /\ FetchFails(s, "user")
  /\ h' = [h EXCEPT ![s] = Done([h[s] EXCEPT !.failed = TRUE], Fail(NetErr))]
  /\ UNCHANGED <<rlVars, authVars, cache, bgLastIndex, storeVars, lastGood, csVars>>

\* The handler's line after the create answered with id (0: no name in the
\* answer): handleSaveComment 209-219 goes on to the comment count,
\* handleAddReply 382-385 answers.
AfterPost(rec, id) ==
  IF rec.kind = "save"
    THEN Issue([rec EXCEPT !.pc = "count", !.newId = id], "putCount")
    ELSE Done([rec EXCEPT !.newId = id], Ok(<<>>))

\* The store creates the record and answers its generated id.
PostOk(s) ==
  /\ h[s].pc = "post"
  /\ nextId <= MaxIds
  /\ nextId' = nextId + 1
  /\ IF h[s].kind = "save"
       THEN /\ rComments' = [rComments EXCEPT ![h[s].key] = Append(@, Comment(nextId, h[s].ts))]
            /\ UNCHANGED rReplies
       ELSE /\ rReplies' = [rReplies EXCEPT ![h[s].cid] = @ + 1]
            /\ UNCHANGED rComments
  /\ h' = [h EXCEPT ![s] = AfterPost(h[s], nextId)]
  /\ UNCHANGED <<rlVars, authVars, cache, bgLastIndex, rUsers, lastGood, budget, csVars>>

\* The store refuses the create: its answer is an error body without a name.
\* fetch does not reject, response.json() gives the body, result.name is undefined.
PostNoId(s) ==
  /\ FetchFails(s, "post")
  /\ h' = [h EXCEPT ![s] = AfterPost([h[s] EXCEPT !.postFailed = TRUE], 0)]
  /\ UNCHANGED <<rlVars, authVars, cache, bgLastIndex, storeVars, lastGood, csVars>>

\* The POST request rejects.
PostFails(s) ==
  /\ FetchFails(s, "post")
  /\ h' = [h EXCEPT ![s] = Done([h[s] EXCEPT !.failed = TRUE, !.postFailed = TRUE],
                                Fail(NetErr))]
  /\ UNCHANGED <<rlVars, authVars, cache, bgLastIndex, storeVars, lastGood, csVars>>

\* handleSaveComment 212-221: the comment count is written and
\* cacheCommentLocally starts reading the snapshot.
CountPut(s) ==
  /\ h[s].pc = "count"
  /\ rUsers' = [rUsers EXCEPT ![h[s].uid].commentCount = h[s].user.commentCount + 1]
  /\ h' = [h EXCEPT ![s].pc = "cache_get"]
  /\ UNCHANGED <<rlVars, authVars, cache, bgLastIndex, rComments, rReplies, nextId,
                 lastGood, budget, csVars>>

CountPutFails(s) ==
  /\ FetchFails(s, "count")
  /\ h' = [h EXCEPT ![s] = Done([h[s] EXCEPT !.failed = TRUE], Fail(NetErr))]
  /\ UNCHANGED <<rlVars, authVars, cache, bgLastIndex, storeVars, lastGood, csVars>>

\* cacheCommentLocally 426-430: the snapshot is read, the comment pushed, the
\* list sorted and its write started.
CacheGet(s) ==
  /\ h[s].pc = "cache_get"
  /\ h' = [h EXCEPT ![s].pc = "cache_set",
                    ![s].list = sortByTimestamp(Append(cache[h[s].key],
                                                       Comment(h[s].newId, h[s].ts)))]
  /\ UNCHANGED <<rlVars, authVars, cache, bgLastIndex, storeVars, lastGood, budget, csVars>>

\* cacheCommentLocally 430, handleSaveComment 223: the snapshot is written
\* and the handler answers the comment.
CacheSet(s) ==
  /\ h[s].pc = "cache_set"
  /\ cache' = [cache EXCEPT ![h[s].key] = h[s].list]
  /\ lastGood' = [lastGood EXCEPT ![h[s].key] = h[s].list]
  /\ h' = [h EXCEPT ![s] = Done([h[s] EXCEPT !.cached = TRUE],
                                Ok(<<Comment(h[s].newId, h[s].ts)>>))]
  /\ UNCHANGED <<rlVars, authVars, bgLastIndex, storeVars, budget, csVars>>

\* ------------------------------------------------------- background: load
\* Bugs the read path must exclude: the error is passed on, or the snapshot
\* is dropped.
FallbackPropagates(cached) == Fail(NetErr)

\* handleLoadComments 283-288: the catch answers the cached snapshot.
FallbackAnswer(cached) == Ok(cached)

\* handleLoadComments to its first await: the comments of the key are requested.
StartLoad(k, origin) ==
  Issue([Idle EXCEPT !.kind = "load", !.origin = origin, !.pc = "load_comments",
                     !.key = k], "getComments")

\* handleLoadComments 237-259: the comments arrive; none answers an empty
\* list at once, otherwise they are sorted and the first replies requested.
LoadComments(s) ==
  /\ h[s].pc = "load_comments"
  /\ LET data == rComments[h[s].key]
     IN  IF data = <<>>
           THEN /\ h' = [h EXCEPT ![s] = Done(h[s], Ok(<<>>))]
                /\ lastGood' = [lastGood EXCEPT ![h[s].key] = <<>>]
           ELSE /\ h' = [h EXCEPT ![s] = Issue([h[s] EXCEPT !.pc = "load_details", !.idx = 1,
                                                           !.list = sortByTimestamp(data)],
                                               "getReplies")]
                /\ UNCHANGED lastGood
  /\ UNCHANGED <<rlVars, authVars, cache, bgLastIndex, storeVars, budget, csVars>>

\* handleLoadComments 254-278, one turn of the loop: the replies of comment
\* idx arrive, its likes are requested and arrive; then the next comment's
\* replies are requested, or the snapshot's write is started.  Neither
\* answer changes the list's members or their order.
LoadDetails(s) ==
  /\ h[s].pc = "load_details"
  /\ h' = [h EXCEPT ![s] =
             IF h[s].idx < Len(h[s].list)
               THEN Issue(Issue([h[s] EXCEPT !.idx = @ + 1], "getLikes"), "getReplies")
               ELSE Issue([h[s] EXCEPT !.pc = "load_set"], "getLikes")]
  /\ UNCHANGED <<rlVars, authVars, cache, bgLastIndex, storeVars, lastGood, budget, csVars>>

\* handleLoadComments 280-282: the snapshot is written and answered.
LoadSet(s) ==
  /\ h[s].pc = "load_set"
  /\ cache' = [cache EXCEPT ![h[s].key] = h[s].list]
  /\ lastGood' = [lastGood EXCEPT ![h[s].key] = h[s].list]
  /\ h' = [h EXCEPT ![s] = Done([h[s] EXCEPT !.cached = TRUE], Ok(h[s].list))]
  /\ UNCHANGED <<rlVars, authVars, bgLastIndex, storeVars, budget, csVars>>

\* handleLoadComments 283-286: a request of the load rejects; the catch
\* starts reading the cached snapshot.
LoadFails(s) ==
  /\ \/ FetchFails(s, "load_comments")
     \/ FetchFails(s, "load_details")
  /\ h' = [h EXCEPT ![s].pc = "load_fallback", ![s].failed = TRUE]
  /\ UNCHANGED <<rlVars, authVars, cache, bgLastIndex, storeVars, lastGood, csVars>>

\* handleLoadComments 286-287: the cached snapshot is read and answered.
LoadFallback(s) ==
  /\ h[s].pc = "load_fallback"
  /\ h' = [h EXCEPT ![s] = Done(h[s], FallbackAnswer(cache[h[s].key]))]
  /\ UNCHANGED <<rlVars, authVars, cache, bgLastIndex, storeVars, lastGood, budget, csVars>>

\* --------------------------------------------- the store's other clients
\* Another viewer's comment is created under a key.
OutsideAdd ==
  /\ budget.outside > 0 /\ nextId <= MaxIds
  /\ \E k \in Keys, ts \in 0..MaxPos :
       rComments' = [rComments EXCEPT ![k] = Append(@, Comment(nextId, ts))]
  /\ nextId' = nextId + 1
  /\ budget' = [budget EXCEPT !.outside = @ - 1]
  /\ UNCHANGED <<rlVars, authVars, cache, bgLastIndex, h, rUsers, rReplies, lastGood, csVars>>

\* A comment is removed from the store (moderation of a reported comment).
OutsideDelete ==
  /\ budget.outside > 0
  /\ \E k \in Keys : \E i \in 1..Len(rComments[k]) :
       rComments' = [rComments EXCEPT ![k] = Remove(@, i)]
  /\ budget' = [budget EXCEPT !.outside = @ - 1]
  /\ UNCHANGED <<rlVars, authVars, cache, bgLastIndex, h, rUsers, rReplies, nextId,
                 lastGood, csVars>>

\* The actor's user record gets banned set.
OutsideBan ==
  /\ budget.outside > 0
  /\ \E u \in Users : /\ rUsers[u].exists /\ ~rUsers[u].banned
                      /\ rUsers' = [rUsers EXCEPT ![u].banned = TRUE]
  /\ budget' = [budget EXCEPT !.outside = @ - 1]
  /\ UNCHANGED <<rlVars, authVars, cache, bgLastIndex, h, rComments, rReplies, nextId,
                 lastGood, csVars>>

\* ---------------------------------------------------------- content script
Send == Free # {} /\ budget.msgs > 0
Sent == budget' = [budget EXCEPT !.msgs = @ - 1]

\* waitForVideo 801-811 (the first video) or checkUrlChange 745-770, with
\* extractVideoInfoWhenReady 1019-1027 and loadComments 1227-1235: the URL
\* now names key k; the list is emptied, the poll stopped, and the comments
\* of k are requested.  The keys are interchangeable: the first video is k1.
CsNavigate ==
  /\ Send /\ Sent
  /\ \E k \in Keys \ {csVideoId} :
       /\ csVideoId = NoKey => k = "k1"
       /\ csVideoId' = k
       /\ h' = [h EXCEPT ![Min(Free)] = StartLoad(k, "load")]
  /\ csComments' = <<>>
  /\ csPolling' = FALSE
  /\ UNCHANGED <<rlVars, authVars, cache, bgLastIndex, storeVars, lastGood, csLastIndex,
                 csPolled, navVars, evalVars, timeVars, likeVars>>

\* setupRealtimeListener 1264-1269: the poll timer fires.
CsPoll ==
  /\ csPolling
  /\ Send /\ Sent
  /\ h' = [h EXCEPT ![Min(Free)] = StartLoad(csVideoId, "poll")]
  /\ UNCHANGED <<rlVars, authVars, cache, bgLastIndex, storeVars, lastGood, csVars>>

\* handleAddComment 1455-1464: the injector's own filter blocks the text.
CsAddCommentBlocked ==
  \E text \in Texts :
    LET f == Verdict(text, csLastIndex)
    IN  /\ trim(text) # <<>>
        /\ ~f.threw /\ ~f.isClean
        /\ csLastIndex' = f.lastIndex
        /\ UNCHANGED <<rlVars, bgVars, csVideoId, csComments, csPolling, csPolled, navVars,
                       evalVars, timeVars, likeVars>>

\* handleAddComment 1455-1479 and saveComment 1334-1344: the text passes the
\* injector's filter, the position is read, SAVE_COMMENT is sent.  The
\* comment box is injected with the first video (waitForVideo 801-811).
CsAddComment ==
  /\ csVideoId # NoKey
  /\ Send /\ Sent
  /\ \E text \in Texts, ts \in 0..MaxPos :
       LET f == Verdict(text, csLastIndex)
       IN  /\ trim(text) # <<>>
           /\ ~f.threw /\ f.isClean
           /\ csLastIndex' = f.lastIndex
           /\ ReceiveWrite(Min(Free), [Idle EXCEPT !.kind = "save", !.origin = "save",
                                               !.key = csVideoId, !.text = text, !.ts = ts])
  /\ UNCHANGED <<now, rlHist, authVars, cache, storeVars, lastGood, csVideoId, csComments,
                 csPolling, csPolled, navVars, evalVars, timeVars, likeVars>>

\* showReplyInput.handleReply 1695-1704: ADD_REPLY is sent for a listed comment.
CsReply ==
  /\ Send /\ Sent
  /\ \E i \in 1..Len(csComments), text \in Texts :
       /\ csComments[i].id # 0
       /\ trim(text) # <<>>
       /\ ReceiveWrite(Min(Free), [Idle EXCEPT !.kind = "reply", !.origin = "reply",
                                           !.cid = csComments[i].id, !.text = trim(text)])
  /\ UNCHANGED <<now, rlHist, authVars, cache, storeVars, lastGood, csVars>>

\* A bug the reconciliation by count must exclude: every fetched list is taken.
ReconciledAlways(comments, fetched) == fetched

\* A bug the reconciliation of lengths must exclude: only a longer list is
\* taken.
ReconciledGrowing(comments, fetched) ==
  IF Len(fetched) > Len(comments) THEN fetched ELSE comments

\* setupRealtimeListener 1271-1273: the poll takes the fetched list when its
\* length is not the length of this.comments.
Reconciled(comments, fetched) ==
  IF Len(fetched) # Len(comments) THEN fetched ELSE comments

\* What a poll answer was like: of another length than the list, of its
\* length with other contents, or the list itself.
PollKind(comments, fetched) ==
  IF Len(fetched) # Len(comments) THEN "length"
  ELSE IF fetched # comments THEN "contents" ELSE "same"

\* The answer of handler s reaches the content script, which goes on after
\* its await: loadComments 1237-1244, the poll 1271-1274, saveComment
\* 1346-1353, handleReply 1706-1716.
Deliver(s) ==
  /\ h[s].pc = "done"
  /\ LET r == h[s].resp
         o == h[s].origin
     IN  /\ csComments' =
              CASE o \in {"load", "reload"} /\ r.success -> r.comments
                [] o = "poll" /\ r.success -> Reconciled(csComments, r.comments)
                [] o = "save" /\ r.success ->
                     sortByTimestamp(Append(csComments, r.comments[1]))
                [] OTHER -> csComments
         /\ csPolled' = IF o = "poll" /\ r.success
                          THEN PollKind(csComments, r.comments) ELSE csPolled
         /\ csPolling' = IF o = "load" /\ r.success THEN TRUE ELSE csPolling
         /\ h' = [h EXCEPT ![s] = IF o = "reply" /\ r.success
                                    THEN StartLoad(csVideoId, "reload") ELSE Idle]
  /\ UNCHANGED <<rlVars, authVars, cache, bgLastIndex, storeVars, lastGood, budget,
                 csVideoId, csLastIndex, navVars, evalVars, timeVars, likeVars>>

\* The worker and the content script.  A run of Spec lies within one rate
\* window: the clock moves in SpecRL only.
Next ==
  \/ CsNavigate \/ CsPoll \/ CsAddCommentBlocked \/ CsAddComment \/ CsReply
  \/ \E s \in Slots :
       \/ AuthGet(s) \/ AuthSignupOk(s) \/ AuthSignupFail(s) \/ AuthProfile(s)
       \/ UserFetched(s) \/ UserFetchFails(s)
       \/ PostOk(s) \/ PostNoId(s) \/ PostFails(s)
       \/ CountPut(s) \/ CountPutFails(s) \/ CacheGet(s) \/ CacheSet(s)
       \/ LoadComments(s) \/ LoadDetails(s) \/ LoadSet(s)
       \/ LoadFails(s) \/ LoadFallback(s)
       \/ Deliver(s)
  \/ OutsideAdd \/ OutsideDelete \/ OutsideBan

Spec == Init /\ [][Next]_vars

\* ------------------------------------- content script: key, channel, timers
\* SpecCS follows the injector alone: how it resolves the key of the page,
\* what it sends on the channel and what it does with the answers.  The
\* worker is what answers: LOAD_COMMENTS with success and a list of the
\* requested key (handleLoadComments 240, 282, 287), the writes with success
\* or with one of the worker's errors.  csPolling and the worker's variables
\* stand still.  The pages are interchangeable: the page opens on w1.
InitCS ==
  /\ RLInit /\ BgInit /\ CsInit /\ EvalInit /\ TimeInit /\ LikeInit
  /\ \E p \in Platforms : NavInit(p, "w1")

chanVars == <<pending, csSends>>
csRest   == <<rlVars, bgVars, csPolling, csPolled, evalVars, timeVars, likeVars>>

\* An annotation as the injector holds it, with the key it was requested under.
CsComment(k, id) == [id |-> id, timestamp |-> 0, key |-> k]
Loaded(k)        == { <<>>, <<CsComment(k, 1)>> }
Saved(k)         == CsComment(k, 2)

\* The errors SAVE_COMMENT answers: handleSaveComment 160-163, 170-173,
\* 183-186, 226.
SaveErrors ==
  {RateMsg("save"), Suspended, NetErr, TypeErr}
    \cup {join(Verdict(t, NoLastIndex).violations, ". ") :
            t \in {x \in Texts : ~Verdict(x, NoLastIndex).threw
                                 /\ ~Verdict(x, NoLastIndex).isClean}}

SaveFailed == <<"Failed to save comment. Please try again.">>   \* 1490

Msg(type, origin, key, final) ==
  [n |-> csSends + 1, type |-> type, origin |-> origin, key |-> key, final |-> final]

\* chrome.runtime.sendMessage(msg): the call is made; in an invalidated
\* context it throws 'Extension context invalidated' and nothing is sent.
sendMessage(msg) ==
  /\ csSends < MaxSends
  /\ csSends' = csSends + 1
  /\ pending' = IF invalid THEN pending ELSE pending \cup {msg}
  /\ stale' = (stale \/ invalid)

\* showExtensionReloadedNotice 1288-1332: nothing without the panel
Notice(panel) == notice \/ panel

\* clearInterval(handle) on the poll timers
Cleared(timers, handle) ==
  IF handle \in DOMAIN timers THEN [timers EXCEPT ![handle].live = FALSE] ELSE timers

\* loadComments 1227-1235 and, when the call throws, 1245-1253.  c0 is the
\* list before the call, panel whether the panel exists.
loadComments(id, c0, panel) ==
  /\ sendMessage(Msg("LOAD_COMMENTS", "load", id, TRUE))
  /\ csComments' = IF invalid THEN <<>> ELSE c0
  /\ notice' = IF invalid THEN Notice(panel) ELSE notice

\* The retry loops that are live.
RECURSIVE SumUpTo(_, _)
SumUpTo(f, n) == IF n < 0 THEN 0 ELSE f[n] + SumUpTo(f, n - 1)
Live(loops) == SumUpTo(loops, maxAttempts)

\* extractVideoInfoWhenReady 1019-1037: one extraction; a valid id is
\* locked and loaded, otherwise a retry loop starts.  f0 is
\* videoIdFinalized before the call.
extractVideoInfoWhenReady(c0, f0, panel) ==
  LET id == extractVideoInfo(platform, url, meta)
  IN  /\ csVideoId' = id
      /\ IF IsValidId(id)
           THEN /\ videoIdFinalized' = TRUE
                /\ retry' = retry
                /\ loadComments(id, c0, panel)
           ELSE /\ Live(retry) < MaxLoops
                /\ videoIdFinalized' = f0
                /\ retry' = [retry EXCEPT ![0] = @ + 1]
                /\ csComments' = c0
                /\ UNCHANGED <<notice, stale, chanVars>>

\* The page moves to another URL (history.pushState of the SPA).
UrlChange ==
  /\ nUrls < MaxUrls
  /\ \E u \in AllUrls \ {url} : url' = u
  /\ meta' = FALSE
  /\ nUrls' = nUrls + 1
  /\ UNCHANGED <<platform, lastUrl, videoFound, videoIdFinalized, retry, realtimeInterval,
                 pollTimers, pending, invalid, notice, csError, csSends, csSaveAnswer,
                 awaiting, stale, csVideoId, csComments, csLastIndex, csRest,
                 retryOld, applied, cleaned>>

\* getNetflixEpisodeId 1110-1175: the player publishes the episode (the
\* media source, the player model or data-videoid).
MetaArrives ==
  /\ platform = "netflix" /\ url \in Watch /\ ~meta
  /\ meta' = TRUE
  /\ UNCHANGED <<platform, url, lastUrl, videoFound, videoIdFinalized, retry,
                 realtimeInterval, pollTimers, pending, invalid, notice, csError, csSends,
                 csSaveAnswer, awaiting, stale, nUrls, csVideoId, csComments,
                 csLastIndex, csRest,
                 retryOld, applied, cleaned>>

\* The extension is reloaded or updated under the page.
Invalidate ==
  /\ ~invalid
  /\ invalid' = TRUE
  /\ UNCHANGED <<platform, url, lastUrl, meta, videoFound, videoIdFinalized, retry,
                 realtimeInterval, pollTimers, pending, notice, csError, csSends,
                 csSaveAnswer, awaiting, stale, nUrls, csVideoId, csComments,
                 csLastIndex, csRest,
                 retryOld, applied, cleaned>>

\* watchForNavigation.checkUrlChange 745-770: the navigation event.
checkUrlChange ==
  /\ url # lastUrl
  /\ lastUrl' = url
  /\ retryOld' = retry
  /\ pollTimers' = Cleared(pollTimers, realtimeInterval)
  /\ realtimeInterval' = 0
  /\ awaiting' = TRUE
  /\ extractVideoInfoWhenReady(<<>>, FALSE, videoFound)
  /\ UNCHANGED <<platform, url, meta, videoFound, invalid, csError, csSaveAnswer, nUrls,
                 csLastIndex, csRest,
                 applied, cleaned>>

\* waitForVideo 779-812: the video element is there; the listeners and the
\* panel are set up and the key is resolved unless it is locked.
VideoFound ==
  /\ ~videoFound
  /\ videoFound' = TRUE
  /\ IF videoIdFinalized
       THEN UNCHANGED <<csVideoId, videoIdFinalized, retry, csComments, notice, stale,
                        chanVars>>
       ELSE extractVideoInfoWhenReady(csComments, FALSE, TRUE)
  /\ UNCHANGED <<platform, url, lastUrl, meta, realtimeInterval, pollTimers, invalid,
                 csError, csSaveAnswer, awaiting, nUrls, csLastIndex, csRest,
                 retryOld, applied, cleaned>>

\* setupVideoListeners 1186-1207: 'play' or 'loadedmetadata' while the key
\* is not locked.
PlaybackEvent ==
  /\ videoFound /\ ~videoIdFinalized
  /\ extractVideoInfoWhenReady(csComments, FALSE, TRUE)
  /\ UNCHANGED <<platform, url, lastUrl, meta, videoFound, realtimeInterval, pollTimers,
                 invalid, csError, csSaveAnswer, awaiting, nUrls, csLastIndex, csRest,
                 retryOld, applied, cleaned>>

\* extractVideoInfoWhenReady 1036-1062: a retry loop that has made n
\* attempts ticks; it ends (clearInterval) when the id is valid or the
\* attempts are used up.
Ticked(loops, n, ends) ==
  IF ends THEN [loops EXCEPT ![n] = @ - 1]
  ELSE [loops EXCEPT ![n] = @ - 1, ![n + 1] = @ + 1]

\* A bug the retry bound must exclude: the loop never gives up.
GivesUpNever(attempts) == FALSE

\* extractVideoInfoWhenReady 1051: attempts >= maxAttempts
GivesUp(attempts) == attempts >= maxAttempts

RetryTick(n) ==
  /\ n \in DOMAIN retry /\ retry[n] > 0
  /\ LET id == extractVideoInfo(platform, url, meta)
         a  == n + 1
         lock == IsValidId(id) \/ (GivesUp(a) /\ id # NoKey)
         ends == IsValidId(id) \/ GivesUp(a)
     IN  /\ csVideoId' = id
         /\ retry' = Ticked(retry, n, ends)
         /\ \/ retryOld[n] > 0 /\ retryOld' = Ticked(retryOld, n, ends)
            \/ retry[n] > retryOld[n] /\ retryOld' = retryOld
         /\ IF lock
              THEN /\ videoIdFinalized' = TRUE
                   /\ loadComments(id, csComments, videoFound)
              ELSE UNCHANGED <<videoIdFinalized, csComments, notice, stale, chanVars>>
  /\ UNCHANGED <<platform, url, lastUrl, meta, videoFound, realtimeInterval, pollTimers,
                 invalid, csError, csSaveAnswer, awaiting, nUrls, csLastIndex, csRest,
                 applied, cleaned>>

\* setupRealtimeListener 1264-1285: poll timer t fires; when the call
\* throws, the timer this.realtimeInterval names is cleared.
PollTick(t) ==
  /\ t \in DOMAIN pollTimers /\ pollTimers[t].live
  /\ sendMessage(Msg("LOAD_COMMENTS", "poll", csVideoId, videoIdFinalized))
  /\ pollTimers' = IF invalid THEN Cleared(pollTimers, realtimeInterval) ELSE pollTimers
  /\ notice' = IF invalid THEN Notice(videoFound) ELSE notice
  /\ UNCHANGED <<platform, url, lastUrl, meta, videoFound, videoIdFinalized, retry,
                 realtimeInterval, invalid, csError, csSaveAnswer, awaiting, nUrls,
                 csVideoId, csComments, csLastIndex, csRest,
                 retryOld, applied, cleaned>>

\* handleAddComment 1455-1491 and saveComment 1334-1357: the text passes,
\* SAVE_COMMENT is sent for this.currentVideoId as it is; a throwing call
\* ends in handleAddComment's catch.
handleAddComment ==
  /\ videoFound
  /\ \E text \in Texts :
       LET f == Verdict(text, csLastIndex)
       IN  /\ trim(text) # <<>>
           /\ ~f.threw /\ f.isClean
           /\ csLastIndex' = f.lastIndex
  /\ sendMessage(Msg("SAVE_COMMENT", "save", csVideoId, videoIdFinalized))
  /\ csError' = IF invalid THEN SaveFailed ELSE csError
  /\ UNCHANGED <<platform, url, lastUrl, meta, videoFound, videoIdFinalized, retry,
                 realtimeInterval, pollTimers, invalid, notice, csSaveAnswer, awaiting,
                 nUrls, csVideoId, csComments, csRest,
                 retryOld, applied, cleaned>>

\* handleLikeComment 1641-1647 and showReplyInput.handleReply 1695-1704: a
\* write about a listed comment is sent; a throwing call is logged.
ListedWrite(type, origin) ==
  /\ csComments # <<>>
  /\ sendMessage(Msg(type, origin, csVideoId, videoIdFinalized))
  /\ UNCHANGED <<platform, url, lastUrl, meta, videoFound, videoIdFinalized, retry,
                 realtimeInterval, pollTimers, invalid, notice, csError, csSaveAnswer,
                 awaiting, nUrls, csVideoId, csComments, csLastIndex, csRest,
                 retryOld, applied, cleaned>>

handleLikeComment ==
  /\ videoFound
  /\ ListedWrite("LIKE_COMMENT", "like")

handleReply ==
  /\ videoFound
  /\ ListedWrite("ADD_REPLY", "reply")

\* A bug the single poll must exclude: the timer before is left running.
setupRealtimeListenerKeeps(k) ==
  /\ pollTimers' = Append(pollTimers, [live |-> TRUE, key |-> k])
  /\ realtimeInterval' = Len(pollTimers) + 1

\* setupRealtimeListener 1256-1264: the timer this.realtimeInterval names
\* is cleared and a new one is created for the load of key k.
setupRealtimeListener(k) ==
  /\ pollTimers' = Append(Cleared(pollTimers, realtimeInterval), [live |-> TRUE, key |-> k])
  /\ realtimeInterval' = Len(pollTimers) + 1

\* The answer to a LOAD_COMMENTS arrives: loadComments 1237-1244, the poll
\* 1271-1274, the reloads 1656-1659 and 1713-1716.
AnswerLoad(m) ==
  /\ m \in pending /\ m.type = "LOAD_COMMENTS" /\ ~invalid
  /\ \E list \in Loaded(m.key) :
       csComments' = IF m.origin = "poll" THEN Reconciled(csComments, list) ELSE list
  /\ IF m.origin = "load"
       THEN /\ setupRealtimeListener(m.key)
            /\ awaiting' = (awaiting /\ m.key # csVideoId)
       ELSE UNCHANGED <<pollTimers, realtimeInterval, awaiting>>
  /\ applied' = IF m.key = applied.key /\ m.n < applied.n
                  THEN applied ELSE [key |-> m.key, n |-> m.n]
  /\ pending' = pending \ {m}
  /\ UNCHANGED <<platform, url, lastUrl, meta, videoFound, videoIdFinalized, retry,
                 invalid, notice, csError, csSends, csSaveAnswer, stale, nUrls,
                 csVideoId, csLastIndex, csRest,
                 retryOld, cleaned>>

\* The answer to a SAVE_COMMENT arrives: saveComment 1346-1357 and
\* handleAddComment 1479-1491.
AnswerSave(m) ==
  /\ m \in pending /\ m.type = "SAVE_COMMENT" /\ ~invalid
  /\ \E r \in {Ok(<<Saved(m.key)>>)} \cup {Fail(e) : e \in SaveErrors} :
       /\ csSaveAnswer' = r
       /\ csComments' = IF r.success
                          THEN sortByTimestamp(Append(csComments, r.comments[1]))
                          ELSE csComments
       /\ csError' = IF r.success THEN csError ELSE SaveFailed
  /\ pending' = pending \ {m}
  /\ UNCHANGED <<platform, url, lastUrl, meta, videoFound, videoIdFinalized, retry,
                 realtimeInterval, pollTimers, invalid, notice, csSends, awaiting,
                 stale, nUrls, csVideoId, csLastIndex, csRest,
                 retryOld, applied, cleaned>>

\* The answer to a LIKE_COMMENT or an ADD_REPLY arrives: on success the list
\* is requested again for this.currentVideoId (1648-1653, 1706-1711).
AnswerListed(m) ==
  /\ m \in pending /\ m.type \in {"LIKE_COMMENT", "ADD_REPLY"} /\ ~invalid
  /\ \/ /\ csSends < MaxSends
        /\ csSends' = csSends + 1
        /\ pending' = (pending \ {m})
                        \cup {Msg("LOAD_COMMENTS", "reload", csVideoId, videoIdFinalized)}
     \/ /\ pending' = pending \ {m}
        /\ UNCHANGED csSends
  /\ UNCHANGED <<platform, url, lastUrl, meta, videoFound, videoIdFinalized, retry,
                 realtimeInterval, pollTimers, invalid, notice, csError, csSaveAnswer,
                 awaiting, stale, nUrls, csVideoId, csComments, csLastIndex, csRest,
                 retryOld, applied, cleaned>>

\* A call that was under way when the context went away is rejected, with
\* 'Extension context invalidated' (inv) or with another error: the catch
\* blocks 1245-1253, 1275-1284, 1354-1357 with 1489-1491, 1660, 1718.
Reject(m) ==
  /\ m \in pending /\ invalid
  /\ pending' = pending \ {m}
  /\ \E inv \in BOOLEAN :
       /\ stale' = (stale \/ inv)
       /\ notice' = IF inv /\ m.origin \in {"load", "poll"} THEN Notice(videoFound)
                    ELSE notice
       /\ pollTimers' = IF inv /\ m.origin = "poll"
                          THEN Cleared(pollTimers, realtimeInterval) ELSE pollTimers
  /\ csComments' = IF m.origin = "load" THEN <<>> ELSE csComments
  /\ csError' = IF m.origin = "save" THEN SaveFailed ELSE csError
  /\ UNCHANGED <<platform, url, lastUrl, meta, videoFound, videoIdFinalized, retry,
                 realtimeInterval, invalid, csSends, csSaveAnswer, awaiting, nUrls,
                 csVideoId, csLastIndex, csRest,
                 retryOld, applied, cleaned>>

\* cleanup 1748-1755, called on 'beforeunload' (1770-1774): the timer
\* this.realtimeInterval names is cleared.
cleanup ==
  /\ pollTimers' = Cleared(pollTimers, realtimeInterval)
  /\ realtimeInterval' = 0
  /\ cleaned' = TRUE
  /\ UNCHANGED <<platform, url, lastUrl, meta, videoFound, videoIdFinalized, retry,
                 pending, invalid, notice, csError, csSends, csSaveAnswer, awaiting,
                 stale, nUrls, csVideoId, csComments, csLastIndex, csRest,
                 retryOld, applied>>

NextCS ==
  \/ UrlChange \/ MetaArrives \/ Invalidate
  \/ checkUrlChange \/ VideoFound \/ PlaybackEvent
  \/ \E n \in 0..(maxAttempts - 1) : RetryTick(n)
  \/ \E t \in 1..MaxSends : PollTick(t)
  \/ handleAddComment \/ handleLikeComment \/ handleReply
  \/ \E m \in pending : AnswerLoad(m)
  \/ \E m \in pending : AnswerSave(m)
  \/ \E m \in pending : AnswerListed(m)
  \/ \E m \in pending : Reject(m)

SpecCS == InitCS /\ [][NextCS]_vars

\* SpecTimers follows the injector's timers up to and past the unload of the
\* page, in a context that stays valid: the navigation watch, the retry
\* loops, the poll and the reloads after a like, and cleanup.
NextTimers ==
  \/ UrlChange \/ MetaArrives
  \/ checkUrlChange \/ VideoFound \/ PlaybackEvent
  \/ \E n \in 0..(maxAttempts - 1) : RetryTick(n)
  \/ \E t \in 1..MaxSends : PollTick(t)
  \/ handleLikeComment
  \/ \E m \in pending : AnswerLoad(m)
  \/ \E m \in pending : AnswerListed(m)
  \/ cleanup

SpecTimers == InitCS /\ [][NextTimers]_vars

\* ------------------------------------------------- the poll, for ever
\* SpecLive follows one viewer on one video while other clients write to the
\* store: the video is opened once, the channel and the store stay available,
\* the poll timer goes on firing and every request and answer arrives.
InitLive ==
  /\ RLInit /\ CsInit /\ NavInit("netflix", Browse) /\ EvalInit /\ TimeInit /\ LikeInit
  /\ BgStart([msgs |-> 1, fails |-> 0, outside |-> MaxWrites])

\* waitForVideo 801-811: the first video is found and its comments requested.
OpenVideo == csVideoId = NoKey /\ CsNavigate

\* setupRealtimeListener 1264-1269: the poll timer fires, as long as the
\* page lives.
PollFires ==
  /\ csPolling /\ Free # {}
  /\ h' = [h EXCEPT ![Min(Free)] = StartLoad(csVideoId, "poll")]
  /\ UNCHANGED <<rlVars, authVars, cache, bgLastIndex, storeVars, lastGood, budget, csVars>>

\* Another viewer of the same video adds a comment, or one is removed (the
\* video that will be opened is k1).
OthersWrite ==
  /\ OutsideAdd \/ OutsideDelete
  /\ \A k \in Keys \ {"k1"} : rComments'[k] = rComments[k]

\* handleLoadComments goes on after an await, or its answer arrives.
LoadStep(s) == LoadComments(s) \/ LoadDetails(s) \/ LoadSet(s) \/ Deliver(s)

NextLive ==
  \/ OpenVideo \/ PollFires
  \/ \E s \in Slots : LoadComments(s)
  \/ \E s \in Slots : LoadDetails(s)
  \/ \E s \in Slots : LoadSet(s)
  \/ \E s \in Slots : Deliver(s)
  \/ OthersWrite

\* setInterval fires the poll every 2000 ms, fetch and the message channel
\* settle every request.
SpecLive ==
  /\ InitLive /\ [][NextLive]_vars
  /\ WF_vars(OpenVideo) /\ WF_vars(PollFires)
  /\ \A s \in Slots : WF_vars(LoadStep(s))

\* ------------------------------------------------- the saves of an actor
\* SpecCount follows the SAVE_COMMENT handlers of one viewer while the store
\* answers every request: the video is opened once, comments are sent, and
\* the clock moves, so that a later comment is admitted while an earlier
\* handler still awaits a fetch.
InitCount ==
  /\ RLInit /\ CsInit /\ NavInit("netflix", Browse) /\ EvalInit /\ TimeInit /\ LikeInit
  /\ BgStart([msgs |-> MaxMsgs, fails |-> 0, outside |-> 0])

NextCount ==
  \/ OpenVideo \/ CsAddComment \/ Tick
  \/ \E s \in Slots : AuthGet(s)
  \/ \E s \in Slots : AuthSignupOk(s)
  \/ \E s \in Slots : AuthProfile(s)
  \/ \E s \in Slots : UserFetched(s)
  \/ \E s \in Slots : PostOk(s)
  \/ \E s \in Slots : CountPut(s)
  \/ \E s \in Slots : CacheGet(s)
  \/ \E s \in Slots : CacheSet(s)
  \/ \E s \in Slots : LoadComments(s)
  \/ \E s \in Slots : LoadDetails(s)
  \/ \E s \in Slots : LoadSet(s)
  \/ \E s \in Slots : Deliver(s)

SpecCount == InitCount /\ [][NextCount]_vars

\* ------------------------------------------------------ background: like
\* SpecLike follows handleLikeComment for one actor and one comment, in a
\* worker that has signed in (onInstalled 52-61): the requests of one rate
\* window, two of them in flight together at most.
pageVars == <<csVideoId, csComments, csPolling, csLastIndex, csPolled, navVars, evalVars,
             timeVars>>

InitLike ==
  /\ RLInit /\ CsInit /\ NavInit("netflix", Browse) /\ EvalInit /\ TimeInit /\ LikeInit
  /\ currentUser = "u1" /\ stored = "u1" /\ nSignups = 1
  /\ cache = [k \in Keys |-> <<>>]
  /\ bgLastIndex = NoLastIndex
  /\ h = [s \in Slots |-> Idle]
  /\ rUsers = [u \in Users |-> IF u = "u1" THEN NewProfile ELSE NoData]
  /\ rComments = [k \in Keys |-> <<>>]
  /\ rReplies = [i \in 1..MaxIds |-> 0]
  /\ nextId = 1
  /\ lastGood = [k \in Keys |-> <<>>]
  /\ budget = [msgs |-> 0, fails |-> MaxFails, outside |-> 0]

\* handleLikeComment 311-327: DELETE when the record read is true, PUT true
\* otherwise; what the record is after the request.
LikeWritten(liked) == ~liked

\* handleLikeComment 292-308: LIKE_COMMENT reaches its handler, which asks
\* the rate limiter and, admitted, requests the actor's like record.
LikeReceive(s) ==
  /\ lk[s].pc = "idle" /\ nLikes < MaxTaps
  /\ nLikes' = nLikes + 1
  /\ DoCheck(currentUser, "like")
  /\ lk' = [lk EXCEPT ![s] =
              IF check(actions, currentUser, "like", now).ok
                THEN [NoLike EXCEPT !.pc = "get"]
                ELSE [NoLike EXCEPT !.pc = "done"]]
  /\ UNCHANGED <<now, bgVars, pageVars, rLiked, likeFlips>>

\* handleLikeComment 306-309: the like record arrives.
LikeGet(s) ==
  /\ lk[s].pc = "get"
  /\ lk' = [lk EXCEPT ![s] = [@ EXCEPT !.pc = "write", !.liked = rLiked]]
  /\ UNCHANGED <<rlVars, bgVars, pageVars, rLiked, nLikes, likeFlips>>

\* handleLikeComment 311-328: the DELETE or the PUT is done and the handler
\* answers the state it has written.
LikeWrite(s) ==
  /\ lk[s].pc = "write"
  /\ rLiked' = LikeWritten(lk[s].liked)
  /\ lk' = [lk EXCEPT ![s] = [@ EXCEPT !.pc = "done", !.success = TRUE,
                                        !.answer = LikeWritten(lk[s].liked)]]
  /\ UNCHANGED <<rlVars, bgVars, pageVars, nLikes, likeFlips>>

\* handleLikeComment 329-332: a request of the handler rejects.
LikeFails(s) ==
  /\ lk[s].pc \in {"get", "write"}
  /\ budget.fails > 0
  /\ budget' = [budget EXCEPT !.fails = @ - 1]
  /\ lk' = [lk EXCEPT ![s] = [@ EXCEPT !.pc = "done"]]
  /\ UNCHANGED <<rlVars, authVars, cache, bgLastIndex, h, storeVars, lastGood, pageVars,
                 rLiked, nLikes, likeFlips>>

\* The answer reaches the content script.
LikeAnswer(s) ==
  /\ lk[s].pc = "done"
  /\ likeFlips' = IF lk[s].success THEN likeFlips + 1 ELSE likeFlips
  /\ lk' = [lk EXCEPT ![s] = NoLike]
  /\ UNCHANGED <<rlVars, bgVars, pageVars, rLiked, nLikes>>

NextLike ==
  \/ \E s \in Slots : LikeReceive(s)
  \/ \E s \in Slots : LikeGet(s)
  \/ \E s \in Slots : LikeWrite(s)
  \/ \E s \in Slots : LikeFails(s)
  \/ \E s \in Slots : LikeAnswer(s)

SpecLike == InitLike /\ [][NextLike]_vars

\* ------------------------------------------- the moderation engine, alone
\* SpecFilter calls filterContent on one ContentFilter instance, on texts a
\* viewer may type and on the filteredText of the call before.
\* 'a.' repeated, n characters in all
Filler(n) == [i \in 1..n |-> IF i % 2 = 1 THEN "a" ELSE "."]

FilterTexts ==
  { <<"h", "i">>,                                   \* hi
    <<"a">>,                                        \* a
    <<" ", "h", "i", " ">>,                         \* ' hi '
    <<" ", "a", " ">>,                              \* ' a '
    <<"a", "s", "s", " ", "d", "a", "m", "n">>,     \* ass damn
    <<"h", "t", "t", "p", ":", "/", "/", "a">>,     \* http://a
    <<"n", "*", "*", "*", "a">>,                    \* n***a
    <<"n", "a", "s", "s", "a">>,                    \* nassa
    Filler(MaxTextLen),
    Filler(MaxTextLen + 1) }

\* The texts of FilterTexts and what the calls return as filteredText (the
\* redaction does not read lastIndex).
RECURSIVE SanitizedClosure(_)
SanitizedGrow(S, T) == IF T = S THEN S ELSE SanitizedClosure(T)
SanitizedClosure(S) ==
  SanitizedGrow(S, S \cup {filterContent(t, NoLastIndex).filteredText : t \in S})
EvalTexts == SanitizedClosure(FilterTexts)

\* The lastIndex vectors the instance can stand at after any calls on EvalTexts.
RECURSIVE EvalClosure(_)
EvalGrow(S, T) == IF T = S THEN S ELSE EvalClosure(T)
EvalClosure(S) ==
  EvalGrow(S, S \cup {filterContent(t, li).lastIndex : t \in EvalTexts, li \in S})
EvalLastIndexes == EvalClosure({NoLastIndex})

\* filterContent on EvalTexts, evaluated once.
EvalVerdicts ==
  {<<x[1], x[2], filterContent(x[1], x[2])>> : x \in EvalTexts \X EvalLastIndexes}
EvalVerdict(text, li) == (CHOOSE v \in EvalVerdicts : v[1] = text /\ v[2] = li)[3]

\* One call: what was passed, whether it was the filteredText of the call
\* before (pass 2), and what came back.
Call(text, pass, v) ==
  [text |-> text, pass |-> pass, threw |-> v.threw, isClean |-> v.isClean,
   action |-> v.action, violations |-> v.violations, filteredText |-> v.filteredText]

Called(text, pass) ==
  /\ fCalls' = Append(fCalls, Call(text, pass, EvalVerdict(text, fLastIndex)))
  /\ fLastIndex' = EvalVerdict(text, fLastIndex).lastIndex
  /\ UNCHANGED <<rlVars, bgVars, csVideoId, csComments, csPolling, csLastIndex, csPolled,
                 navVars,
                 timeVars, likeVars>>

\* filterContent(text)
Evaluate ==
  /\ Len(fCalls) < MaxCalls
  /\ \E text \in FilterTexts : Called(text, 1)

\* filterContent(filterContent(t).filteredText): the call before returned.
EvaluateSanitized ==
  /\ Len(fCalls) < MaxCalls
  /\ fCalls # <<>>
  /\ ~fCalls[Len(fCalls)].threw
  /\ Called(fCalls[Len(fCalls)].filteredText, 2)

NextFilter == Evaluate \/ EvaluateSanitized

SpecFilter == Init /\ [][NextFilter]_vars

\* ------------------------------------------------- the playback position
\* SpecTime follows getRealTimestamp alone, on Netflix and on Hulu: the time
\* display and the media element are what the page holds when it is called.
DigitChars == <<"0", "1", "2", "3", "4", "5", "6", "7", "8", "9">>

\* parseInt of a run of digits
RECURSIVE parseInt(_)
parseInt(ds) ==
  IF ds = <<>> THEN 0
  ELSE 10 * parseInt(SubSeq(ds, 1, Len(ds) - 1))
         + (CHOOSE d \in 0..9 : DigitChars[d + 1] = ds[Len(ds)])

\* \d{n} at place pos, and ':' at place pos
DigitsAt(text, pos, n) ==
  pos + n - 1 <= Len(text) /\ \A i \in pos..(pos + n - 1) : text[i] \in Digits
ColonAt(text, pos) == pos <= Len(text) /\ text[pos] = ":"

\* /(\d{1,2}):(\d{2})/ matches at place s with n digits in its first group
MsAt(text, s, n) ==
  DigitsAt(text, s, n) /\ ColonAt(text, s + n) /\ DigitsAt(text, s + n + 1, 2)

\* /(\d{1,2}):(\d{2}):(\d{2})/ matches at place s with n digits in its first group
HmsAt(text, s, n) ==
  MsAt(text, s, n) /\ ColonAt(text, s + n + 3) /\ DigitsAt(text, s + n + 4, 2)

\* String.prototype.match: the leftmost place, the first group as long as
\* it can be; <<0, 0>> when there is none.
FirstHit(hits) ==
  IF hits = {} THEN <<0, 0>>
  ELSE CHOOSE x \in hits : \A y \in hits : x[1] < y[1] \/ (x[1] = y[1] /\ x[2] >= y[2])

Group(text, from, n) == parseInt(SubSeq(text, from, from + n - 1))

Absent      == [null |-> TRUE, value |-> 0]
Position(v) == [null |-> FALSE, value |-> v]

\* getRealTimestamp 968-985: Netflix's .time-remaining display
netflixTime(text) ==
  LET m == FirstHit({x \in (1..Len(text)) \X {1, 2} : HmsAt(text, x[1], x[2])})
  IN  IF text = NoDisplay \/ m = <<0, 0>> THEN Absent
      ELSE Position(Group(text, m[1], m[2]) * 3600
                      + Group(text, m[1] + m[2] + 1, 2) * 60
                      + Group(text, m[1] + m[2] + 4, 2))

\* getRealTimestamp 987-1003: Hulu's .ControlsContainer__time-display
huluTime(text) ==
  LET m == FirstHit({x \in (1..Len(text)) \X {1, 2} : MsAt(text, x[1], x[2])})
  IN  IF text = NoDisplay \/ m = <<0, 0>> THEN Absent
      ELSE Position(Group(text, m[1], m[2]) * 60 + Group(text, m[1] + m[2] + 1, 2))

\* getRealTimestamp 1005-1010: Math.floor(this.videoElement.currentTime)
\* when there is an element and its clock is above 0
clockTime(clock) ==
  IF clock # NoVideo /\ clock > 0 THEN Position(clock \div 10) ELSE Absent

\* getRealTimestamp 843-1017 on platform p
getRealTimestamp(p, text, clock) ==
  LET shown == IF p = "netflix" THEN netflixTime(text) ELSE huluTime(text)
  IN  IF ~shown.null THEN shown ELSE clockTime(clock)

\* What a time display reads
TimeTexts ==
  { NoDisplay,
    <<"0", ":", "0", "0">>,
    <<"1", "2", ":", "3", "4">>,
    <<"9", "9", ":", "9", "9">>,
    <<"1", ":", "0", "2", ":", "0", "3">>,
    <<"2", "3", ":", "5", "9", ":", "5", "9">>,
    <<"2", "4", ":", "0", "0", ":", "0", "0">>,
    <<"1", "0", "0", ":", "0", "0", ":", "0", "0">> }

\* What the media element's clock reads, in tenths of a second
Day    == 86400
Clocks == {NoVideo, 0, 5, 15, 10 * Day - 1, 10 * Day, 10 * Day + 15}

InitTime ==
  /\ RLInit /\ BgInit /\ CsInit /\ EvalInit /\ LikeInit
  /\ \E p \in Platforms : NavInit(p, "w1")
  /\ tsDisplay \in TimeTexts /\ tsClock \in Clocks /\ tsReturn = NoReturn

\* this.getRealTimestamp()
ReadTimestamp ==
  /\ tsReturn' = [called |-> TRUE] @@ getRealTimestamp(platform, tsDisplay, tsClock)
  /\ UNCHANGED <<rlVars, bgVars, csVideoId, csComments, csPolling, csLastIndex, csPolled,
                 navVars,
                 evalVars, likeVars, tsDisplay, tsClock>>

\* The player goes on: the display and the clock read something else.
Playback ==
  /\ tsDisplay' \in TimeTexts /\ tsClock' \in Clocks
  /\ UNCHANGED <<rlVars, bgVars, csVideoId, csComments, csPolling, csLastIndex, csPolled,
                 navVars,
                 evalVars, likeVars, tsReturn>>

NextTime == ReadTimestamp \/ Playback

SpecTime == InitTime /\ [][NextTime]_vars

\* ------------------------------------------------------------------ claims
CountIn(times, lo, hi) == Len(SelectSeq(times, LAMBDA x : lo <= x /\ x < hi))

\* C1: for every (actor, action kind) and every interval [a, a + window) of
\* window milliseconds, the number of admitted calls stamped inside it never
\* exceeds max; once max calls of the window are admitted, a further call
\* inside that window is rejected.
C1_WindowBound ==
  /\ \A p \in Pairs : \A a \in (0 - WindowMs)..MaxTime :
       CountIn(admitted[p], a, a + limits[p[2]].window) <= limits[p[2]].max
  /\ (/\ rlLast.at >= 0
      /\ CountIn(admitted[<<rlLast.user, rlLast.action>>],
                 rlLast.at - limits[rlLast.action].window + 1, rlLast.at + 1)
           - (IF rlLast.ok THEN 1 ELSE 0) >= limits[rlLast.action].max)
       => ~rlLast.ok

\* C1 witness: max calls were admitted inside one window and a further call
\* inside it was rejected.
C1_Witness ==
  /\ rlLast.at >= 0
  /\ ~rlLast.ok
  /\ rlLast.count = limits[rlLast.action].max
  /\ rlLast.at - rlLast.oldest < limits[rlLast.action].window
  /\ rlLast.at > rlLast.oldest

\* C2: a check made more than window milliseconds after the oldest admission
\* still kept in the window is admitted.
C2_Readmission ==
  (rlLast.oldest >= 0 /\ rlLast.at - rlLast.oldest > limits[rlLast.action].window)
    => rlLast.ok

\* C2 witness: a pair whose window was full and had rejected a call is
\* admitted again once its oldest admission is more than a window old.
C2_Witness ==
  /\ rlLast.ok
  /\ rlLast.oldest >= 0
  /\ rlLast.at - rlLast.oldest > limits[rlLast.action].window
  /\ rlLast.count = limits[rlLast.action].max
  /\ <<rlLast.user, rlLast.action>> \in rejected

Writes == {"save", "reply"}
Sorted(list) == \A i, j \in 1..Len(list) : i < j => list[i].timestamp <= list[j].timestamp

\* C3: a SAVE_COMMENT or ADD_REPLY handler whose rate-limiter check rejected,
\* or whose moderation verdict was not clean, has answered: it issued no POST,
\* did not write the cached snapshot, and its answer is success:false with
\* the throttling message of its kind, or with the verdict's violation
\* reasons joined.
C3_WriteGate ==
  \A s \in Slots :
    (h[s].kind \in Writes /\ h[s].checked) =>
      /\ ~h[s].rateOk =>
           /\ h[s].pc = "done" /\ "post" \notin h[s].reqs /\ ~h[s].cached
           /\ h[s].resp = Fail(RateMsg(h[s].kind))
      /\ (h[s].rateOk /\ ~Verdict(h[s].text, h[s].li).isClean) =>
           /\ h[s].pc = "done" /\ "post" \notin h[s].reqs /\ ~h[s].cached
           /\ h[s].resp = Fail(join(Verdict(h[s].text, h[s].li).violations, ". "))
           /\ h[s].resp.error # <<>>

\* C3 witness: a write the rate limiter admitted and the moderation engine
\* blocked has been answered with the reasons.
C3_Witness ==
  \E s \in Slots :
    /\ h[s].kind \in Writes /\ h[s].checked /\ h[s].rateOk
    /\ ~Verdict(h[s].text, h[s].li).isClean
    /\ h[s].pc = "done" /\ ~h[s].resp.success /\ h[s].resp.error # <<>>

\* C4, as the specification states it: the step in which the moderation
\* engine blocks a write records no timestamp in the rate limiter's table.
C4_ModerationBeforeRate ==
  [][\A s \in Slots :
       (h'[s].gate = "moderation" /\ h[s].gate # "moderation") => actions' = actions]_vars

\* C5, as the specification states it: a SAVE_COMMENT or ADD_REPLY handler
\* has issued no request (sign-up and profile write included) before its
\* rate-limiter check and its moderation verdict both passed.
C5_NoRemoteBeforeGate ==
  \A s \in Slots : h[s].kind \in Writes => h[s].pre = {}

\* C6, as the specification states it: a SAVE_COMMENT handler whose create
\* failed (the POST threw, or the store answered without an id) does not write
\* the cached snapshot and does not answer success, and no comment without an
\* id is in a cached snapshot or in the content script's list.
C6_PersistFailureNotSuccess ==
  /\ \A s \in Slots :
       (h[s].kind = "save" /\ h[s].postFailed) =>
         /\ ~h[s].cached
         /\ h[s].pc = "done" => ~h[s].resp.success
  /\ \A k \in Keys : \A i \in 1..Len(cache[k]) : cache[k][i].id # 0
  /\ \A i \in 1..Len(csComments) : csComments[i].id # 0

\* C7: a SAVE_COMMENT or ADD_REPLY handler that read a user record with
\* banned set has answered success:false with the suspension error, issued no
\* POST and did not write the cached snapshot.
C7_BannedActor ==
  \A s \in Slots :
    (h[s].kind \in Writes /\ h[s].user.banned) =>
      /\ h[s].pc = "done" /\ h[s].resp = Fail(Suspended)
      /\ "post" \notin h[s].reqs /\ ~h[s].cached

\* C7 witness: a write of an admitted, clean text was refused for the ban.
C7_Witness ==
  \E s \in Slots :
    /\ h[s].kind \in Writes /\ h[s].gate = "passed" /\ h[s].user.banned
    /\ h[s].pc = "done" /\ h[s].resp = Fail(Suspended)

\* C8: every step in which a LOAD_COMMENTS handler answers, answers
\* success:true; when a fetch of the load had failed, the answer carries the
\* cached snapshot of the handler's key as it is at that step.
C8_ReadAvailability ==
  [][\A s \in Slots :
       (h[s].kind = "load" /\ h[s].pc # "done" /\ h'[s].pc = "done") =>
         /\ h'[s].resp.success
         /\ h[s].failed => h'[s].resp.comments = cache[h[s].key]]_vars

\* C8 witness: a load whose fetch failed has answered a snapshot that is not
\* empty.
C8_Witness ==
  \E s \in Slots :
    /\ h[s].kind = "load" /\ h[s].failed /\ h[s].pc = "done"
    /\ h[s].resp.success /\ h[s].resp.comments # <<>>

\* C9, as the specification states it: a LOAD_COMMENTS handler that falls
\* back answers what the last successful load of its key, or append to it,
\* gave: the empty list when that load found none.
C9_FallbackIsLastGood ==
  [][\A s \in Slots :
       (h[s].pc = "load_fallback" /\ h'[s].pc = "done") =>
         h'[s].resp.comments = lastGood[h[s].key]]_vars

\* C10: the content script's list and every cached snapshot are sorted by
\* timestamp.
C10_Ordering ==
  /\ Sorted(csComments)
  /\ \A k \in Keys : Sorted(cache[k])

\* C10 witness: the list and a snapshot hold two comments that the store
\* keeps in the other order.
C10_Witness ==
  /\ Len(csComments) >= 2
  /\ csComments[1].id > csComments[2].id
  /\ csComments[1].timestamp < csComments[2].timestamp
  /\ \E k \in Keys : cache[k] = csComments

\* C11 -- No cross-key bleed: every annotation in the injector's list was
\* loaded or saved under the current content key; an answer that was
\* requested under a superseded key is not written into the list.
C11_NoCrossKeyBleed ==
  \A i \in 1..Len(csComments) : csComments[i].key = csVideoId

\* C12 -- Only a final key is used for writes: a SAVE_COMMENT is sent only
\* while the key is finalized and present.
C12_FinalKeyForWrites ==
  \A m \in pending : m.type = "SAVE_COMMENT" => (m.final /\ m.key # NoKey)

\* C13 -- Stale is terminal: a request that fails with 'Extension context
\* invalidated' brings the reload notice up, and after such a failure no
\* further sendMessage call is made, a later navigation included.
C13_StaleIsTerminal ==
  [][(stale' => notice') /\ (stale => csSends' = csSends)]_vars

\* C14 -- Key lock: while the key is finalized and no navigation event
\* happens, currentVideoId keeps its value, no retry loop makes another
\* attempt and no resolution-triggered load is sent.
C14_KeyLock ==
  [][(videoIdFinalized /\ lastUrl' = lastUrl) =>
       /\ csVideoId' = csVideoId
       /\ retry' = retry
       /\ \A m \in pending' \ pending : m.origin # "load"]_vars

\* C15 -- Polling follows the key: from a navigation event until a load of
\* the new key has been applied no poll timer is live, and a live poll timer
\* is the one the current key's load started.
C15_PollFollowsKey ==
  \A t \in DOMAIN pollTimers :
    pollTimers[t].live => (~awaiting /\ pollTimers[t].key = csVideoId)

\* What a call returned: isClean, action, violations, filteredText, or that it threw.
Returned(c) == <<c.threw, c.isClean, c.action, c.violations, c.filteredText>>

\* C16 -- Moderation is deterministic and stateless: two calls of
\* filterContent on the same text on one instance return equal verdicts,
\* whatever was evaluated in between.
C16_Deterministic ==
  \A i, j \in 1..Len(fCalls) :
    fCalls[i].text = fCalls[j].text => Returned(fCalls[i]) = Returned(fCalls[j])

\* The violation checkProfanity reports for a term of the block list (94).
TermViolation(word) == <<"Inappropriate language: ">> \o word

\* C17 -- Redaction fixed point: evaluating the filteredText of a call
\* completes and reports no block-list term that the call before reported.
C17_RedactionFixedPoint ==
  \A j \in 2..Len(fCalls) :
    fCalls[j].pass = 2 =>
      /\ ~fCalls[j].threw
      /\ \A k \in 1..Len(profanityList) :
           TermViolation(profanityList[k]) \in Range(fCalls[j - 1].violations)
             => TermViolation(profanityList[k]) \notin Range(fCalls[j].violations)

\* The places of text that a block-list term or an obfuscation pattern matches.
MatchedPlaces(text) ==
  {i \in 1..Len(text) :
     \/ \E k \in 1..Len(profanityList) :
          /\ IsValidRegExp(profanityList[k])
          /\ includes(toLowerCase(text), profanityList[k])
          /\ MaskWord(profanityList[k], text, 1)[i] = "*"
     \/ \E k \in 1..Len(patterns) : MaskPattern(patterns[k], text, 1)[i] = "*"}

\* C18 -- Sanitized text reflects all redactions: every place a block-list
\* term or an obfuscation pattern matches is starred in filteredText.
C18_AllRedactions ==
  \A j \in 1..Len(fCalls) :
    ~fCalls[j].threw =>
      \A i \in MatchedPlaces(fCalls[j].text) : fCalls[j].filteredText[i] = "*"

TooLong  == <<"Text too long (max 500 characters)">>
TooShort == <<"Text too short">>

\* C19 -- Length bounds: a returned verdict has a length violation exactly
\* when the trimmed text has fewer than 2 characters or the text more than
\* 500, and is then a block; 'hi' is allowed and returned unchanged.
C19_LengthBounds ==
  \A j \in 1..Len(fCalls) :
    LET c == fCalls[j]
    IN  ~c.threw =>
          /\ TooLong \in Range(c.violations) <=> Len(c.text) > 500
          /\ TooShort \in Range(c.violations) <=> Len(trim(c.text)) < 2
          /\ (Len(c.text) > 500 \/ Len(trim(c.text)) < 2)
               => (~c.isClean /\ c.action = "block")
          /\ c.text = <<"h", "i">>
               => (c.isClean /\ c.action = "allow" /\ c.filteredText = c.text)

\* A text of 500 characters and one of trimmed length 2 were passed without
\* a length violation, one of 501 and one of trimmed length 1 blocked.
C19_Witness ==
  /\ \E j \in 1..Len(fCalls) :
       /\ Len(fCalls[j].text) = 500
       /\ fCalls[j].isClean
  /\ \E j \in 1..Len(fCalls) :
       /\ Len(fCalls[j].text) = 501
       /\ fCalls[j].violations = <<TooLong>>
  /\ \E j \in 1..Len(fCalls) :
       /\ fCalls[j].text = <<" ", "a", " ">>
       /\ fCalls[j].violations = <<TooShort>>

\* C20 -- Write-path errors reach the UI verbatim: when SAVE_COMMENT is
\* answered success:false with an error, the text showError displays is
\* that error.
C20_ErrorsVerbatim ==
  [][\A m \in pending \ pending' :
       (m.type = "SAVE_COMMENT" /\ ~invalid /\ ~csSaveAnswer'.success)
         => csError' = csSaveAnswer'.error]_vars

\* C21 -- The actor credential is write-once: over every interleaving of the
\* handlers of one worker process the anonymous sign-up happens at most once,
\* and currentUser, once set, never changes.
C21_WriteOnce ==
  [][/\ currentUser # NoUser => currentUser' = currentUser
     /\ nSignups' <= 1]_vars

\* C22 -- Key stability: for one page URL the key resolution locks on is the
\* same in every run.  A run in which the richer signals (media source, tctx,
\* player model, data-videoid) are there at the first attempt locks on the
\* key extractVideoInfo gives with them; so in every run, once the signals
\* are there, the key locked for the page's URL is that key.
C22_KeyStability ==
  (videoIdFinalized /\ lastUrl = url /\ meta)
    => csVideoId = extractVideoInfo(platform, url, TRUE)

\* C23 -- Position bounds: every value getRealTimestamp returns that is not
\* null is an integer in [0, 86400), whichever platform and source gave it.
C23_PositionBounds ==
  (tsReturn.called /\ ~tsReturn.null) => tsReturn.value \in 0..(Day - 1)

\* C24 -- Navigation invalidates in-flight resolution: a retry loop that was
\* started before the last navigation event makes no further attempt; only
\* a navigation event changes which live loops are from before it.
C24_NavigationInvalidates ==
  [][lastUrl' = lastUrl => retryOld' = retryOld]_vars

\* C25 -- Late responses are discarded: once the answer of a later
\* LOAD_COMMENTS request for a key has been handled, the answer of an earlier
\* request for that key leaves the comment list as it is.
C25_LateResponsesDiscarded ==
  [][\A m \in pending \ pending' :
       (m.type = "LOAD_COMMENTS" /\ ~invalid /\ m.key = applied.key /\ m.n < applied.n)
         => csComments' = csComments]_vars

\* C26 -- Timer ownership on teardown: after cleanup() has run, no retry
\* loop makes an attempt and no poll timer sends a request.
C26_TeardownStopsTimers ==
  [][cleaned =>
       /\ \A n \in DOMAIN retry : retry'[n] >= retry[n]
       /\ \A m \in pending' \ pending : m.origin # "poll"]_vars

\* C27 -- Rejection records nothing: a rateLimiter.check call that returns
\* false leaves the window of its (actor, action kind) holding exactly the
\* timestamps that had not expired; the time of the call is not added.
C27_RejectionRecordsNothing ==
  [][(nChecks' = nChecks + 1 /\ ~rlLast'.ok) =>
       LET p == <<rlLast'.user, rlLast'.action>>
       IN  actions'[p] = SelectSeq(actions[p],
                                   LAMBDA time : now - time < limits[p[2]].window)]_vars

\* C27 witness: a call was rejected at a time later than every admission its
\* window holds, and the window holds max timestamps, none of them that time.
C27_Witness ==
  /\ rlLast.at = now /\ ~rlLast.ok
  /\ LET p == <<rlLast.user, rlLast.action>>
     IN  /\ Len(actions[p]) = limits[p[2]].max
         /\ \A i \in 1..Len(actions[p]) : actions[p][i] < now

\* C28 -- Pruning boundary: rateLimiter.check removes exactly the timestamps
\* older than now - window (time < now - window); a timestamp whose age is
\* exactly window is kept and counts toward max.
C28_PruningBoundary ==
  [][nChecks' = nChecks + 1 =>
       LET p    == <<rlLast'.user, rlLast'.action>>
           w    == limits[p[2]].window
           kept == SelectSeq(actions[p], LAMBDA time : ~(time < now - w))
       IN  /\ rlLast'.ok = (Len(kept) < limits[p[2]].max)
           /\ actions'[p] = IF rlLast'.ok THEN Append(kept, now) ELSE kept]_vars

\* C29 -- Window independence: a rateLimiter.check(actor, action kind) call
\* changes only the window of that pair, and its answer is decided by that
\* pair's own admissions: it is admitted exactly when fewer than max of them
\* lie less than a window back, whatever the other windows hold.
C29_WindowIndependence ==
  [][nChecks' = nChecks + 1 =>
       LET p == <<rlLast'.user, rlLast'.action>>
       IN  /\ \A q \in Pairs \ {p} : actions'[q] = actions[q]
           /\ rlLast'.ok =
                (CountIn(admitted[p], now - limits[p[2]].window + 1, now + 1)
                   < limits[p[2]].max)]_vars

\* C29 witness: an actor whose comment window is full, and has rejected a
\* call, is admitted for another action kind at the same time.
C29_Witness ==
  /\ rlLast.at = now /\ rlLast.ok /\ rlLast.action # "comment"
  /\ <<rlLast.user, "comment">> \in rejected
  /\ Len(Prune(actions[<<rlLast.user, "comment">>], now, limits.comment.window))
       = limits.comment.max

\* C30 -- Count-only reconciliation: when the poll handles a fetched list of
\* the length of the local list, the local list stays as it is even if the
\* contents differ; when the lengths differ, the fetched list replaces it.
C30_CountOnlyReconciliation ==
  [][\A s \in Slots :
       (h[s].pc = "done" /\ h[s].origin = "poll" /\ h[s].resp.success /\ h'[s].pc = "idle")
         => csComments' = IF Len(h[s].resp.comments) = Len(csComments)
                            THEN csComments ELSE h[s].resp.comments]_vars

\* C30 witness: the poll has handled a fetched list of the local list's
\* length and other contents, and the local list is not what the store holds.
C30_Witness ==
  /\ csPolled = "contents"
  /\ csVideoId # NoKey
  /\ csComments # <<>>
  /\ rComments[csVideoId] # csComments

\* C31: a retry loop of extractVideoInfoWhenReady makes at most maxAttempts
\* attempts: no live loop has made maxAttempts attempts, since the tick that
\* makes the last attempt clears the loop's own timer, with a key or without.
C31_BoundedRetry ==
  \A n \in DOMAIN retry : retry[n] > 0 => n < maxAttempts

\* The loop the navigation to the browse page started has made all its
\* attempts without a key and ended: no loop is live and nothing is locked.
C31_Witness ==
  /\ url = Browse /\ lastUrl = Browse /\ nUrls = 1
  /\ Live(retry) = 0 /\ ~videoIdFinalized /\ csVideoId = NoKey

\* C32 -- Verdict consistency: a verdict filterContent returns is not clean
\* exactly when its action is 'block', exactly when it lists a violation;
\* its action is 'allow' or 'block', never 'warn'.
C32_VerdictConsistency ==
  \A j \in 1..Len(fCalls) :
    LET c == fCalls[j]
    IN  ~c.threw =>
          /\ ~c.isClean <=> c.action = "block"
          /\ c.action = "block" <=> c.violations # <<>>
          /\ c.action \in {"allow", "block"}

\* One text was allowed without a violation, one was blocked for profanity
\* alone and one for spam alone.
C32_Witness ==
  /\ \E j \in 1..Len(fCalls) :
       fCalls[j].isClean /\ fCalls[j].action = "allow" /\ fCalls[j].violations = <<>>
  /\ \E j \in 1..Len(fCalls) :
       /\ fCalls[j].text = <<"n", "a", "s", "s", "a">>
       /\ ~fCalls[j].threw /\ fCalls[j].action = "block"
       /\ Len(fCalls[j].violations) = 1
  /\ \E j \in 1..Len(fCalls) :
       /\ fCalls[j].text = <<"h", "t", "t", "p", ":", "/", "/", "a">>
       /\ fCalls[j].violations = << <<"URLs not allowed">> >>

\* C33 -- Position is absent only if every source fails: a call of
\* getRealTimestamp returns null only when the platform's time display
\* yields no position and there is no media element; with an element its
\* clock is the fallback, at a reading of 0 as well.
C33_AbsentOnlyIfAllFail ==
  [][(tsReturn'.called /\ tsReturn'.null /\ UNCHANGED <<tsDisplay, tsClock>>)
       => /\ (IF platform = "netflix" THEN netflixTime(tsDisplay)
                                      ELSE huluTime(tsDisplay)).null
          /\ tsClock = NoVideo]_vars

\* The remote set has stopped changing: no other client has a write left.
RemoteSettled == budget.outside = 0

\* comments/<key> of the active key, as the store holds it
RemoteList == IF csVideoId \in Keys THEN rComments[csVideoId] ELSE <<>>

\* C34 -- Reconciliation liveness: with a key active and polled, no
\* navigation and everything available, whenever the remote count for the
\* key is not the length of the local list and the remote set has stopped
\* changing, the local list eventually equals the remote list.
C34_ReconciliationLiveness ==
  (csPolling /\ RemoteSettled /\ Len(RemoteList) # Len(csComments))
    ~> (csComments = sortByTimestamp(RemoteList))

\* C34, as the count-only comparison of the poll allows it: in the same
\* case the local list eventually has the length of the remote list.
C34_CountReconciled ==
  (csPolling /\ RemoteSettled /\ Len(RemoteList) # Len(csComments))
    ~> (Len(csComments) = Len(RemoteList))

\* A poll answer of another length has replaced the list after the remote
\* set settled on a list that is not empty.
C34_Witness ==
  /\ csPolling /\ RemoteSettled /\ csPolled = "length"
  /\ RemoteList # <<>>
  /\ csComments = sortByTimestamp(RemoteList)

\* C35 -- No duplicate annotations locally: no id occurs twice in the
\* content script's comment list, whatever the order in which the answers
\* of polls, reloads and saves arrive.
C35_NoDuplicateLocally ==
  \A i, j \in 1..Len(csComments) :
    (i # j /\ csComments[i].id # 0) => csComments[i].id # csComments[j].id

\* C36 -- Failed save leaves no remote trace: a SAVE_COMMENT that answers
\* success: false has created no comment in the remote store.
C36_FailedSaveNoTrace ==
  \A s \in Slots :
    (h[s].kind = "save" /\ h[s].pc = "done" /\ ~h[s].resp.success)
      => h[s].newId = 0

\* C37 -- Cache has no lost update: when the snapshot write of a save's
\* cacheCommentLocally follows the snapshot write of a load of the same key,
\* the snapshot keeps every comment of that load and holds the saved one;
\* when a load's write follows a save's, the snapshot holds the saved
\* comment as long as the store does.
C37_CacheNoLostUpdate ==
  [][\A s, t \in Slots :
       LET k == h[s].key
       IN  /\ ( /\ h[s].pc = "cache_set" /\ h'[s].pc = "done" /\ h[s].newId # 0
                /\ h[t].kind = "load" /\ h[t].pc = "done" /\ h[t].cached
                /\ h[t].key = k /\ cache[k] = h[t].list )
               => /\ Range(h[t].list) \subseteq Range(cache'[k])
                  /\ Comment(h[s].newId, h[s].ts) \in Range(cache'[k])
           /\ ( /\ h[s].pc = "load_set" /\ h'[s].pc = "done"
                /\ h[t].kind = "save" /\ h[t].pc = "done" /\ h[t].cached
                /\ h[t].key = k
                /\ Comment(h[t].newId, h[t].ts) \in Range(rComments[k]) )
               => Comment(h[t].newId, h[t].ts) \in Range(cache'[k])]_vars

\* C38 -- At most one reconciliation poll: a live poll timer is the one
\* this.realtimeInterval names, so at most one timer created by
\* setupRealtimeListener is live and a timer that is replaced or dropped has
\* been cancelled.
C38_SinglePoll ==
  \A t \in DOMAIN pollTimers : pollTimers[t].live => t = realtimeInterval

\* The late answer of a load for the key before the navigation has replaced
\* the timer the new key's load created: the second timer is live, the first
\* is not.
C38_Witness ==
  /\ ~invalid /\ Len(pollTimers) = 2 /\ realtimeInterval = 2
  /\ pollTimers[2].live /\ ~pollTimers[1].live
  /\ pollTimers[1].key = csVideoId /\ pollTimers[2].key # csVideoId

\* C39 -- Like is a toggle: an admitted LIKE_COMMENT that answers success
\* flips the actor's like record and answers the new state, a rate-limited
\* one leaves the record alone; so with no request in flight the record is
\* set exactly when an odd number of requests has answered success.
C39_LikeToggle ==
  /\ []((\A s \in Slots : lk[s].pc = "idle") => (rLiked <=> likeFlips % 2 = 1))
  /\ [][\A s \in Slots :
          /\ (lk[s].pc = "write" /\ lk'[s].pc = "done" /\ lk'[s].success)
               => (rLiked' = ~rLiked /\ lk'[s].answer = rLiked')
          /\ (lk[s].pc = "idle" /\ lk'[s].pc = "done") => rLiked' = rLiked]_vars

\* C40 -- Comment count is exact: users/<uid>/commentCount is its initial
\* value plus the actor's SAVE_COMMENT requests that answered success; every
\* such request writes the count once, before it answers, so each of these
\* writes raises the stored count by one.
C40_CountExact ==
  [][\A s \in Slots :
       (h[s].kind = "save" /\ h[s].pc = "count" /\ h'[s].pc = "cache_get")
         => rUsers'[h[s].uid].commentCount = rUsers[h[s].uid].commentCount + 1]_vars

====
